---------------------------- MODULE Spec2Model ----------------------------
(***************************************************************************)
(* Job coordination layer of the yt-dlp desktop front-end:                 *)
(*   - DownloadManager / DownloadWorker  (src/src/download_manager.py)     *)
(*   - Transcriber chunked transcription and resume                        *)
(*                                        (src/src/transcriber.py)         *)
(* Text is modelled as a sequence of one-character strings, so that the    *)
(* substring tests and the regular expressions of the code are computed.   *)
(***************************************************************************)
EXTENDS Integers, Sequences, FiniteSets, TLC

(***************************************************************************)
(* Bounds of the model.                                                    *)
(***************************************************************************)
\* number of DownloadWorker objects the manager may create in one behaviour
MaxJobs == 2
\* number of output lines one worker reads from its subprocess
MaxLines == 2
\* largest number of chunks of an audio chunk plan
MaxChunks == 2

(***************************************************************************)
(* Text helpers: Python's str operations used by the code.                 *)
(***************************************************************************)
LowerLetters == <<"a", "b", "c", "d", "e", "f", "g", "h", "i", "j", "k", "l", "m", "n", "o", "p", "q", "r", "s", "t", "u", "v", "w", "x", "y", "z">>

UpperLetters == <<"A", "B", "C", "D", "E", "F", "G", "H", "I", "J", "K", "L", "M", "N", "O", "P", "Q", "R", "S", "T", "U", "V", "W", "X", "Y", "Z">>

Digits == <<"0", "1", "2", "3", "4", "5", "6", "7", "8", "9">>

Range(s) == {s[i] : i \in 1..Len(s)}

\* \d
DigitChars == Range(Digits)

\* \s
SpaceChars == {" ", "\t", "\n"}

\* \w
WordChars == Range(LowerLetters) \cup Range(UpperLetters) \cup DigitChars \cup {"_"}

\* [\d.]
DigitDotChars == DigitChars \cup {"."}

\* str.lower() on one character
LowerChar(c) ==
    IF c \in Range(UpperLetters)
    THEN LowerLetters[CHOOSE i \in 1..26 : UpperLetters[i] = c]
    ELSE c

\* str.lower()
Lower(s) == [i \in 1..Len(s) |-> LowerChar(s[i])]

\* sub occurs in s at index i
OccursAt(s, sub, i) ==
    /\ i >= 1
    /\ i + Len(sub) - 1 <= Len(s)
    /\ \A k \in 1..Len(sub) : s[i + k - 1] = sub[k]

\* the Python test  sub in s
Contains(s, sub) == \E i \in 1..(Len(s) + 1) : OccursAt(s, sub, i)

\* str.strip(): leading and trailing whitespace removed
Strip(s) ==
    LET keep == {i \in 1..Len(s) : s[i] \notin SpaceChars}
    IN  IF keep = {} THEN <<>>
        ELSE LET lo == CHOOSE i \in keep : \A j \in keep : i <= j
                 hi == CHOOSE i \in keep : \A j \in keep : j <= i
             IN  SubSeq(s, lo, hi)

\* value of a string of decimal digits
RECURSIVE DigitsValue(_)
DigitsValue(ds) ==
    IF ds = <<>> THEN 0
    ELSE 10 * DigitsValue(SubSeq(ds, 1, Len(ds) - 1))
         + (CHOOSE d \in 0..9 : Digits[d + 1] = ds[Len(ds)])

(***************************************************************************)
(* Regular expressions (Python's re): a pattern is a sequence of elements, *)
(* each a character class with a quantifier; matching backtracks in the    *)
(* order of re, so the first match found is the one re.search returns.     *)
(***************************************************************************)
\* a literal text
Literal(text) == [q |-> "lit", in |-> {}, neg |-> FALSE, text |-> text, sub |-> <<>>]

\* cls?
Opt(cls) == [q |-> "opt", in |-> cls, neg |-> FALSE, text |-> <<>>, sub |-> <<>>]

\* cls*
Star(cls) == [q |-> "star", in |-> cls, neg |-> FALSE, text |-> <<>>, sub |-> <<>>]

\* cls+
Plus(cls) == [q |-> "plus", in |-> cls, neg |-> FALSE, text |-> <<>>, sub |-> <<>>]

\* .*?   ("." is every character but the newline)
LazyAny == [q |-> "lazy", in |-> {"\n"}, neg |-> TRUE, text |-> <<>>, sub |-> <<>>]

\* (?:sub)?   an optional group, sub a pattern
OptGroup(sub) == [q |-> "optgroup", in |-> {}, neg |-> FALSE, text |-> <<>>, sub |-> sub]

Accepts(e, c) == (c \in e.in) # e.neg

\* number of consecutive characters of s from index i that e accepts
RunLen(e, s, i) ==
    IF i > Len(s) THEN 0
    ELSE LET ends == {k \in (i - 1)..Len(s) : \A m \in i..k : Accepts(e, s[m])}
         IN  (CHOOSE k \in ends : \A j \in ends : j <= k) - (i - 1)

NoMatch == [ok |-> FALSE, ends |-> <<>>]

\* elements k.. of pat matched at index i of s: ends[j] is the index after the
\* j-th of these elements in the first match in backtracking order: a greedy
\* quantifier keeps the longest run with which the rest matches, the lazy one
\* the shortest, an optional group is taken when the rest matches with it
RECURSIVE MatchFrom(_, _, _, _)
MatchFrom(pat, k, s, i) ==
    IF k > Len(pat) THEN [ok |-> TRUE, ends |-> <<>>]
    ELSE IF pat[k].q = "lit"
    THEN IF ~OccursAt(s, pat[k].text, i) THEN NoMatch
         ELSE LET rest == MatchFrom(pat, k + 1, s, i + Len(pat[k].text))
              IN  IF rest.ok
                  THEN [ok |-> TRUE, ends |-> <<i + Len(pat[k].text)>> \o rest.ends]
                  ELSE NoMatch
    ELSE IF pat[k].q = "optgroup"
    THEN LET sub     == pat[k].sub
             taken   == MatchFrom(sub \o SubSeq(pat, k + 1, Len(pat)), 1, s, i)
             skipped == MatchFrom(pat, k + 1, s, i)
         IN  IF taken.ok
             THEN [ok |-> TRUE, ends |-> <<taken.ends[Len(sub)]>> \o SubSeq(taken.ends, Len(sub) + 1, Len(taken.ends))]
             ELSE IF skipped.ok
             THEN [ok |-> TRUE, ends |-> <<i>> \o skipped.ends]
             ELSE NoMatch
    ELSE LET e    == pat[k]
             run  == RunLen(e, s, i)
             lo   == IF e.q = "plus" THEN 1 ELSE 0
             hi   == IF e.q = "opt" /\ run > 1 THEN 1 ELSE run
             all  == {[n |-> n, rest |-> MatchFrom(pat, k + 1, s, i + n)] : n \in lo..hi}
             good == {c \in all : c.rest.ok}
         IN  IF good = {} THEN NoMatch
             ELSE LET c == IF e.q = "lazy"
                           THEN CHOOSE x \in good : \A y \in good : x.n <= y.n
                           ELSE CHOOSE x \in good : \A y \in good : x.n >= y.n
                  IN  [ok |-> TRUE, ends |-> <<i + c.n>> \o c.rest.ends]

\* re.search(pat, s): the match at the leftmost index where one exists
Search(pat, s) ==
    LET starts == {i \in 1..(Len(s) + 1) : MatchFrom(pat, 1, s, i).ok}
    IN  IF starts = {} THEN [ok |-> FALSE, start |-> 0, ends |-> <<>>]
        ELSE LET i == CHOOSE x \in starts : \A y \in starts : x <= y
             IN  [ok |-> TRUE, start |-> i, ends |-> MatchFrom(pat, 1, s, i).ends]

\* the text matched by elements a..b of the pattern (a group) in match m
Group(s, m, a, b) ==
    SubSeq(s, IF a = 1 THEN m.start ELSE m.ends[a - 1], m.ends[b] - 1)

(***************************************************************************)
(* DownloadWorker._parse_progress_line  (download_manager.py 177-215)      *)
(***************************************************************************)
DOWNLOAD_MARKER == <<"[", "d", "o", "w", "n", "l", "o", "a", "d", "]">>

\* \[download\]\s+(\d+\.?\d*)%                 group 1: elements 3..5
simple_pattern ==
    <<Literal(DOWNLOAD_MARKER), Plus(SpaceChars),
      Plus(DigitChars), Opt({"."}), Star(DigitChars),
      Literal(<<"%">>)>>

\* \[download\]\s+(\d+\.?\d*)%.*?at\s+([\d.]+\s*\w+/s).*?ETA\s+(\d+:\d+)
\* group 1: elements 3..5, group 2: 10..13, group 3: 17..19
progress_pattern ==
    simple_pattern
    \o <<LazyAny, Literal(<<"a", "t">>), Plus(SpaceChars),
          Plus(DigitDotChars), Star(SpaceChars), Plus(WordChars), Literal(<<"/", "s">>),
          LazyAny, Literal(<<"E", "T", "A">>), Plus(SpaceChars),
          Plus(DigitChars), Literal(<<":">>), Plus(DigitChars)>>

\* the result None
NoProgress == [matched |-> FALSE, percentage |-> 0, speed |-> <<>>, eta |-> <<>>]

\* the digits of a fraction that float() cannot tell from the next integer
NINES == <<"9", "9", "9", "9", "9", "9", "9", "9", "9", "9", "9", "9", "9", "9", "9", "9", "9">>

\* int(float(g)) for g = digits [ "." digits ] below 128. float() gives the
\* nearest double: a fraction that starts with seventeen nines is nearer to
\* the next integer than to any double below it, a fraction of fewer than 15
\* digits is exact to the integer part. (The lines of the model carry no
\* fraction in between.)
IntOfFloat(g) ==
    LET dot == {k \in 1..Len(g) : g[k] = "."}
    IN  IF dot = {} THEN DigitsValue(g)
        ELSE LET d == CHOOSE k \in dot : TRUE
             IN  DigitsValue(SubSeq(g, 1, d - 1))
                 + (IF OccursAt(g, NINES, d + 1) THEN 1 ELSE 0)

\* the two searches of _parse_progress_line, the strict pattern first
ParseWith(line, strict, simple) ==
    IF strict.ok
    THEN [matched |-> TRUE,
          percentage |-> IntOfFloat(Group(line, strict, 3, 5)),
          speed |-> Group(line, strict, 10, 13),
          eta |-> Group(line, strict, 17, 19)]
    ELSE IF simple.ok
    THEN [matched |-> TRUE,
          percentage |-> IntOfFloat(Group(line, simple, 3, 5)),
          speed |-> <<>>,
          eta |-> <<>>]
    ELSE NoProgress

\* a plausible slip: the marker is looked for without regard to case, as
\* the test of line 133 does
parse_progress_line_any_case(line) ==
    IF ~Contains(Lower(line), DOWNLOAD_MARKER) THEN NoProgress
    ELSE ParseWith(Lower(line), Search(progress_pattern, Lower(line)),
                   Search(simple_pattern, Lower(line)))

\* DownloadWorker._parse_progress_line (177-215)
parse_progress_line(line) ==
    IF ~Contains(line, DOWNLOAD_MARKER) THEN NoProgress
    ELSE ParseWith(line, Search(progress_pattern, line), Search(simple_pattern, line))

(***************************************************************************)
(* Output lines the download tool may print (each as readline returns it,  *)
(* newline included).                                                      *)
(***************************************************************************)
\* [download]  45.7% of ~48.00MiB at  2.30MiB/s ETA 00:12
LINE_PROGRESS_FULL == <<"[", "d", "o", "w", "n", "l", "o", "a", "d", "]", " ", " ", "4", "5", ".", "7", "%", " ", "o", "f", " ", "~", "4", "8", ".", "0", "0", "M", "i", "B", " ", "a", "t", " ", " ", "2", ".", "3", "0", "M", "i", "B", "/", "s", " ", "E", "T", "A", " ", "0", "0", ":", "1", "2", "\n">>

\* [download] 100% of 48.00MiB
LINE_PROGRESS_100 == <<"[", "d", "o", "w", "n", "l", "o", "a", "d", "]", " ", "1", "0", "0", "%", " ", "o", "f", " ", "4", "8", ".", "0", "0", "M", "i", "B", "\n">>

\* [download]   0.0% of ~48.00MiB
LINE_PROGRESS_0 == <<"[", "d", "o", "w", "n", "l", "o", "a", "d", "]", " ", " ", " ", "0", ".", "0", "%", " ", "o", "f", " ", "~", "4", "8", ".", "0", "0", "M", "i", "B", "\n">>

\* ERROR: Sign in to confirm you are not a bot
LINE_ERR_SIGNIN == <<"E", "R", "R", "O", "R", ":", " ", "S", "i", "g", "n", " ", "i", "n", " ", "t", "o", " ", "c", "o", "n", "f", "i", "r", "m", " ", "y", "o", "u", " ", "a", "r", "e", " ", "n", "o", "t", " ", "a", " ", "b", "o", "t", "\n">>

\* ERROR: Video unavailable. This video is age-restricted
LINE_ERR_UNAVAILABLE == <<"E", "R", "R", "O", "R", ":", " ", "V", "i", "d", "e", "o", " ", "u", "n", "a", "v", "a", "i", "l", "a", "b", "l", "e", ".", " ", "T", "h", "i", "s", " ", "v", "i", "d", "e", "o", " ", "i", "s", " ", "a", "g", "e", "-", "r", "e", "s", "t", "r", "i", "c", "t", "e", "d", "\n">>

\* ERROR: Confirm your age
LINE_ERR_AGE == <<"E", "R", "R", "O", "R", ":", " ", "C", "o", "n", "f", "i", "r", "m", " ", "y", "o", "u", "r", " ", "a", "g", "e", "\n">>

\* ERROR: Connection reset
LINE_ERR_OTHER == <<"E", "R", "R", "O", "R", ":", " ", "C", "o", "n", "n", "e", "c", "t", "i", "o", "n", " ", "r", "e", "s", "e", "t", "\n">>

\* an empty line
LINE_BLANK == <<"\n">>

\* [info] Writing metadata
LINE_INFO == <<"[", "i", "n", "f", "o", "]", " ", "W", "r", "i", "t", "i", "n", "g", " ", "m", "e", "t", "a", "d", "a", "t", "a", "\n">>

OutputLines == {LINE_PROGRESS_FULL, LINE_PROGRESS_100, LINE_PROGRESS_0, LINE_ERR_SIGNIN, LINE_ERR_UNAVAILABLE, LINE_ERR_AGE, LINE_ERR_OTHER, LINE_BLANK, LINE_INFO}

\* exit codes of the download tool
ExitCodes == {0, 1}

\* size in bytes of the produced file when the worker measures it (-1: no file)
FileSizes == {-1, 50331648}

(***************************************************************************)
(* State.                                                                  *)
(***************************************************************************)
Workers == 1..MaxJobs

VARIABLES
    \* DownloadManager
    is_downloading,     \* self._is_downloading
    m_thread,           \* self._thread: 0 (None) or the worker the thread runs
    m_worker,           \* self._worker: 0 (None) or a worker
    created,            \* number of DownloadWorker objects created so far
    queue,              \* slot calls queued on the manager's (main) thread
    startResult,        \* value returned by the last start_download call
    uncaught,           \* an exception escaped a call made on the main thread
    dialogs,            \* listeners of the manager's terminal signals that are
                        \* waiting in their message box
    \* DownloadWorker, one entry per worker object
    pc,                 \* position of run()
    cancelled,          \* self._cancelled
    process,            \* self._process: "none", "running", "reaped"
    termRequested,      \* terminate() was sent to the subprocess
    returncode,         \* self._process.returncode (-1: None)
    last_percentage,    \* local of run()
    error_lines,        \* local of run()
    nread,              \* lines read from the subprocess so far
    emitted,            \* signals the worker has emitted, in order
    cancelAt,           \* history: nread when cancel() was first called, or -1
    cancelPc,           \* history: pc when cancel() was first called, or "never"
    logged              \* history: the output lines run() passed to the logger

dlvars == <<dialogs, is_downloading, m_thread, m_worker, created, queue, startResult, uncaught, pc, cancelled, process, termRequested, returncode, last_percentage, error_lines, nread, emitted, cancelAt, cancelPc, logged>>

VARIABLES
    \* the file system
    num_chunks,         \* chunks the extraction of the source file produces
    chunk_files,        \* indices of the chunk files that exist
    progress_record,    \* content of the progress file, or NoFile
    \* Transcriber
    groq_api_key,       \* self._groq_api_key is set
    audio_chunks,       \* self._audio_chunks
    progress_file,      \* self._progress_file is set
    source_file,        \* self._source_file is set
    \* the call of transcribe / resume_transcription in progress
    t_pc,               \* "idle", or "chunk": at the head of the chunk loop
    t_op,               \* the last public method entered
    data,               \* resume_transcription: the record it read
    start_chunk,        \* _transcribe_chunks: its argument
    t_i,                \* _transcribe_chunks: the loop index i
    t_retry,            \* _transcribe_chunks: the loop index retry
    all_text,           \* _transcribe_chunks: the local list
    detected_language,  \* _transcribe_chunks: the local ("" is None)
    include_timestamps, \* self._include_timestamps (FALSE also when not set)
    all_timestamped_text, \* _transcribe_chunks: the local list
    api_calls,          \* chunk indices posted to the speech API by this call, in
                        \* order (the repeated requests for one chunk listed once)
    last_sleep,         \* milliseconds of the last time.sleep for chunk i
    t_result,           \* value returned by the last transcribe / resume
    resume_info,        \* value returned by the last check_resume_available
    chunk_calls,        \* requests posted for chunk i by this call
    last_error,         \* result["error"] of the last attempt (<<>>: none)
    transcripts,        \* the text the speech API returned for each chunk, by
                        \* chunk index (the last successful request for it)
    timestamps_asked    \* history: the argument include_timestamps of the last
                        \* call of transcribe

trvars == <<num_chunks, chunk_files, progress_record, groq_api_key, audio_chunks, progress_file, source_file, t_pc, t_op, data, start_chunk, t_i, t_retry, all_text, detected_language, include_timestamps, all_timestamped_text, api_calls, last_sleep, t_result, resume_info, chunk_calls, last_error, transcripts, timestamps_asked>>

VARIABLES
    \* the functions checked on their own: one call, its argument and its result
    called,             \* the function that has returned, or "none"
    wait_msg,           \* _parse_rate_limit_wait: error_msg
    wait_parts,         \* history: the phrases wait_msg was built from
    wait_ms,            \* _parse_rate_limit_wait: the value returned, in
                        \* milliseconds (-1: not called)
    suffix_is_audio,    \* _extract_audio: file_path.suffix.lower() in audio_extensions
    st_size,            \* _extract_audio: file_path.stat().st_size, in bytes
    duration_probed,    \* history: _get_duration was called
    duration_ms,        \* _extract_audio: what _get_duration returns, in
                        \* milliseconds (0: None or 0.0)
    chunk_windows,      \* _extract_chunked_audio: the -ss and -t arguments of
                        \* the ffmpeg run of each chunk, in milliseconds
    source_present,     \* transcribe: the media file file_path exists
    local_whisper,      \* transcribe: what check_local_whisper() returns
    temp_audio,         \* the file yt-dlp-audio-<stem>.mp3 of the temporary
                        \* directory: "none", "partial" or "complete"
    audio_path,         \* transcribe: "unset", "file_path", "temp_audio", "None"
    single_pc,          \* transcribe without chunks: "idle", "try" (at 124),
                        \* "local" (at 135), "returned"
    single_result,      \* transcribe without chunks: the value returned
    split_text,         \* _split_into_chunks: text
    split_chunks,       \* _split_into_chunks: the list returned
    progress_line,      \* _parse_progress_line: line
    progress_parts,     \* history: the pieces progress_line was built from
    progress_event,     \* _parse_progress_line: the value returned
    p_api_key,          \* Proofreader: bool(self._api_key)
    p_text,             \* proofread: text
    p_pc,               \* proofread: "idle", "single" (before the one request),
                        \* "loop" (before the request of chunk i), "returned"
    p_chunks,           \* proofread: chunks
    p_i,                \* proofread: the loop index i (from 1)
    all_edited,         \* proofread: the local list
    all_summaries,      \* proofread: the local list
    p_result,           \* proofread: the value returned
    p_sent              \* history: the texts posted to the completion API, in order

waitvars == <<wait_msg, wait_parts, wait_ms>>

singlevars == <<source_present, local_whisper, temp_audio, audio_path, single_pc, single_result>>

planvars == <<suffix_is_audio, st_size, duration_probed, duration_ms, chunk_windows, singlevars>>

splitvars == <<split_text, split_chunks>>

progvars == <<progress_line, progress_parts, progress_event>>

proofvars == <<p_api_key, p_text, p_pc, p_chunks, p_i, all_edited, all_summaries, p_result, p_sent>>

fnvars == <<called, waitvars, planvars, splitvars, progvars, proofvars>>

vars == <<dlvars, trvars, fnvars>>

(***************************************************************************)
(* Signals of DownloadWorker (download_manager.py 34-37). A message is     *)
(* either one of the fixed texts or the raw text of an output line.        *)
(***************************************************************************)
MSG_PERMISSION == "Cannot create download folder. Check permissions."

MSG_NOT_FOUND == "yt-dlp not found. Please install it first."

MSG_EXCEPTION == "Download error: "

MSG_SIGN_IN == "YouTube requires sign-in. Please sign in to YouTube in your browser and try again."

MSG_UNAVAILABLE == "This video is unavailable or private."

MSG_AGE == "This video is age-restricted. Please sign in to YouTube in your browser."

MSG_GENERIC == "Download failed. Please check your connection and try again."

LOG_STARTING == "Starting download: "

LOG_CANCELLED == "Download cancelled"

LOG_COMPLETE == "Download complete: "

FixedMessage(text) == [fixed |-> text, raw |-> <<>>]

RawMessage(line) == [fixed |-> "", raw |-> line]

Signal(name, p, sp, et, sz, m) ==
    [sig |-> name, percentage |-> p, speed |-> sp, eta |-> et, size |-> sz, msg |-> m]

progress_updated(p, sp, et) == Signal("progress_updated", p, sp, et, 0, FixedMessage(""))

download_finished(sz) == Signal("download_finished", 0, <<>>, <<>>, sz, FixedMessage(""))

error_occurred(m) == Signal("error_occurred", 0, <<>>, <<>>, 0, m)

log_message(text) == Signal("log_message", 0, <<>>, <<>>, 0, FixedMessage(text))

\* the slots of the manager connected to a worker signal, in connection
\* order (start_download, 295-302); every connection is queued, the worker
\* living in another thread. _on_progress and _on_log only re-emit the signal
\* and are not tracked.
\* a plausible slip: the cleanup connection of error_occurred (302) is missing
SlotsOf_error_not_cleaned(name, w) ==
    IF name = "download_finished"
    THEN <<[slot |-> "_on_finished", from |-> w], [slot |-> "_cleanup", from |-> w]>>
    ELSE IF name = "error_occurred"
    THEN <<[slot |-> "_on_error", from |-> w]>>
    ELSE <<>>

SlotsOf(name, w) ==
    IF name = "download_finished"
    THEN <<[slot |-> "_on_finished", from |-> w], [slot |-> "_cleanup", from |-> w]>>
    ELSE IF name = "error_occurred"
    THEN <<[slot |-> "_on_error", from |-> w], [slot |-> "_cleanup", from |-> w]>>
    ELSE <<>>

RECURSIVE SlotsOfAll(_, _)
SlotsOfAll(sigs, w) ==
    IF sigs = <<>> THEN <<>>
    ELSE SlotsOf(Head(sigs).sig, w) \o SlotsOfAll(Tail(sigs), w)

\* utils.get_file_size_mb: the size in tenths of a megabyte, 0 when the file
\* does not exist
get_file_size_mb(bytes) ==
    IF bytes < 0 THEN 0 ELSE (bytes * 10 + 524288) \div 1048576

\* a plausible slip: the age test comes before the unavailable test
error_message_age_first(lines) ==
    IF lines # <<>>
    THEN LET error_msg == lines[Len(lines)]
         IN  IF Contains(error_msg, <<"S", "i", "g", "n", " ", "i", "n">>)
                \/ Contains(Lower(error_msg), <<"b", "o", "t">>)
             THEN FixedMessage(MSG_SIGN_IN)
             ELSE IF Contains(Lower(error_msg), <<"a", "g", "e">>)
             THEN FixedMessage(MSG_AGE)
             ELSE IF Contains(Lower(error_msg), <<"u", "n", "a", "v", "a", "i", "l", "a", "b", "l", "e">>)
             THEN FixedMessage(MSG_UNAVAILABLE)
             ELSE RawMessage(error_msg)
    ELSE FixedMessage(MSG_GENERIC)

\* the message of a failed download (run, 151-165)
error_message(lines) ==
    IF lines # <<>>
    THEN LET error_msg == lines[Len(lines)]
         IN  IF Contains(error_msg, <<"S", "i", "g", "n", " ", "i", "n">>)
                \/ Contains(Lower(error_msg), <<"b", "o", "t">>)
             THEN FixedMessage(MSG_SIGN_IN)
             ELSE IF Contains(Lower(error_msg), <<"u", "n", "a", "v", "a", "i", "l", "a", "b", "l", "e">>)
             THEN FixedMessage(MSG_UNAVAILABLE)
             ELSE IF Contains(Lower(error_msg), <<"a", "g", "e">>)
             THEN FixedMessage(MSG_AGE)
             ELSE RawMessage(error_msg)
    ELSE FixedMessage(MSG_GENERIC)

\* the test of line 133
IsStatusLine(line) ==
    \/ Contains(Lower(line), DOWNLOAD_MARKER)
    \/ Contains(Lower(line), <<"[", "i", "n", "f", "o", "]">>)

\* the test of line 115
IsErrorLine(line) ==
    \/ Contains(line, <<"E", "R", "R", "O", "R">>)
    \/ Contains(Lower(line), <<"e", "r", "r", "o", "r">>)

(***************************************************************************)
(* DownloadWorker.                                                         *)
(***************************************************************************)
\* signal.emit for each signal of sigs, in order: the connected slots of the
\* manager are queued on the main thread
Emit(w, sigs) ==
    /\ emitted' = [emitted EXCEPT ![w] = @ \o sigs]
    /\ queue' = queue \o SlotsOfAll(sigs, w)

\* subprocess.Popen.terminate on the worker's process object; on None the
\* attribute lookup raises
terminate(st) ==
    IF st.process = "none"
    THEN [st EXCEPT !.raised = TRUE]
    ELSE [st EXCEPT !.termRequested = @ \/ st.process = "running"]

\* a plausible slip: the flag is toggled instead of set
cancel_toggles(st) ==
    LET flagged == [st EXCEPT !.cancelled = ~st.cancelled]
    IN  IF st.process # "none" THEN terminate(flagged) ELSE flagged

\* DownloadWorker.cancel (217-224) on the fields it reads and writes;
\* raised: an exception leaves cancel
cancel(st) ==
    LET flagged == [st EXCEPT !.cancelled = TRUE]
    IN  IF st.process # "none"
        THEN [terminate(flagged) EXCEPT !.raised = FALSE]
        ELSE flagged

CancelView(w) ==
    [cancelled |-> cancelled[w], process |-> process[w],
     termRequested |-> termRequested[w], raised |-> FALSE]

\* a plausible slip: the return after the emit of line 71 is missing
run_prepare_continues(w, dir_ok) ==
    /\ pc[w] = "started"
    /\ Emit(w, IF dir_ok THEN <<log_message(LOG_STARTING)>>
                ELSE <<error_occurred(FixedMessage(MSG_PERMISSION)), log_message(LOG_STARTING)>>)
    /\ pc' = [pc EXCEPT ![w] = "popen"]
    /\ UNCHANGED <<dialogs, is_downloading, m_thread, m_worker, created, startResult, uncaught, cancelled, process, termRequested, returncode, last_percentage, error_lines, nread, cancelAt, cancelPc, logged>>
    /\ UNCHANGED <<trvars, fnvars>>

\* run, 68-88: the destination directory (ensure_directory_exists returns
\* False on every exception), the command, the first log line
run_prepare(w, dir_ok) ==
    /\ pc[w] = "started"
    /\ IF dir_ok
       THEN /\ Emit(w, <<log_message(LOG_STARTING)>>)
            /\ pc' = [pc EXCEPT ![w] = "popen"]
       ELSE /\ Emit(w, <<error_occurred(FixedMessage(MSG_PERMISSION))>>)
            /\ pc' = [pc EXCEPT ![w] = "done"]
    /\ UNCHANGED <<dialogs, is_downloading, m_thread, m_worker, created, startResult, uncaught, cancelled, process, termRequested, returncode, last_percentage, error_lines, nread, cancelAt, cancelPc, logged>>
    /\ UNCHANGED <<trvars, fnvars>>

\* a plausible slip: last_percentage starts at -1, "nothing emitted yet"
run_popen_percentage_unset(w, outcome) ==
    /\ pc[w] = "popen"
    /\ IF outcome = "ok"
       THEN /\ process' = [process EXCEPT ![w] = "running"]
            /\ last_percentage' = [last_percentage EXCEPT ![w] = -1]
            /\ error_lines' = [error_lines EXCEPT ![w] = <<>>]
            /\ pc' = [pc EXCEPT ![w] = "read"]
            /\ UNCHANGED <<emitted, queue>>
       ELSE /\ Emit(w, <<error_occurred(FixedMessage(
                    IF outcome = "FileNotFoundError" THEN MSG_NOT_FOUND ELSE MSG_EXCEPTION))>>)
            /\ pc' = [pc EXCEPT ![w] = "done"]
            /\ UNCHANGED <<process, last_percentage, error_lines>>
    /\ UNCHANGED <<dialogs, is_downloading, m_thread, m_worker, created, startResult, uncaught, cancelled, termRequested, returncode, nread, cancelAt, cancelPc, logged>>
    /\ UNCHANGED <<trvars, fnvars>>

\* run, 90-102 with the handlers 168-175: the subprocess is launched, or
\* Popen raises FileNotFoundError or another exception
run_popen(w, outcome) ==
    /\ pc[w] = "popen"
    /\ IF outcome = "ok"
       THEN /\ process' = [process EXCEPT ![w] = "running"]
            /\ last_percentage' = [last_percentage EXCEPT ![w] = 0]
            /\ error_lines' = [error_lines EXCEPT ![w] = <<>>]
            /\ pc' = [pc EXCEPT ![w] = "read"]
            /\ UNCHANGED <<emitted, queue>>
       ELSE /\ Emit(w, <<error_occurred(FixedMessage(
                    IF outcome = "FileNotFoundError" THEN MSG_NOT_FOUND ELSE MSG_EXCEPTION))>>)
            /\ pc' = [pc EXCEPT ![w] = "done"]
            /\ UNCHANGED <<process, last_percentage, error_lines>>
    /\ UNCHANGED <<dialogs, is_downloading, m_thread, m_worker, created, startResult, uncaught, cancelled, termRequested, returncode, nread, cancelAt, cancelPc, logged>>
    /\ UNCHANGED <<trvars, fnvars>>

\* run, 110 and 120: what _parse_progress_line returns for each output line,
\* stripped; computed once
ParsedLine == [line \in OutputLines |-> parse_progress_line(Strip(line))]

\* run, 103-134: one iteration of the loop over the output lines
run_readline(w, line) ==
    /\ pc[w] = "read"
    /\ nread[w] < MaxLines
    /\ nread' = [nread EXCEPT ![w] = @ + 1]
    /\ IF cancelled[w]
       THEN /\ termRequested' = [termRequested EXCEPT ![w] = TRUE]
            /\ Emit(w, <<log_message(LOG_CANCELLED)>>)
            /\ pc' = [pc EXCEPT ![w] = "done"]
            /\ UNCHANGED <<last_percentage, error_lines, logged>>
       ELSE LET stripped == Strip(line)
                progress == ParsedLine[line]
            IN  /\ UNCHANGED <<termRequested, pc>>
                /\ IF stripped = <<>>
                   THEN UNCHANGED <<error_lines, last_percentage, emitted, queue, logged>>
                   ELSE /\ error_lines' =
                              IF IsErrorLine(stripped)
                              THEN [error_lines EXCEPT ![w] = Append(@, stripped)]
                              ELSE error_lines
                        /\ logged' = [logged EXCEPT ![w] =
                              @ \o (IF IsErrorLine(stripped)
                                    THEN <<[level |-> "error", line |-> stripped]>>
                                    ELSE <<>>)
                                \o (IF ~progress.matched /\ IsStatusLine(stripped)
                                    THEN <<[level |-> "debug", line |-> stripped]>>
                                    ELSE <<>>)]
                        /\ IF progress.matched /\ progress.percentage # last_percentage[w]
                           THEN /\ Emit(w, <<progress_updated(progress.percentage, progress.speed, progress.eta)>>)
                                /\ last_percentage' = [last_percentage EXCEPT ![w] = progress.percentage]
                           ELSE UNCHANGED <<last_percentage, emitted, queue>>
    /\ UNCHANGED <<dialogs, is_downloading, m_thread, m_worker, created, startResult, uncaught, cancelled, process, returncode, cancelAt, cancelPc>>
    /\ UNCHANGED <<trvars, fnvars>>

\* run, 103: readline returns '' and the loop ends
run_eof(w) ==
    /\ pc[w] = "read"
    /\ pc' = [pc EXCEPT ![w] = "wait"]
    /\ UNCHANGED <<dialogs, is_downloading, m_thread, m_worker, created, queue, startResult, uncaught, cancelled, process, termRequested, returncode, last_percentage, error_lines, nread, emitted, cancelAt, cancelPc, logged>>
    /\ UNCHANGED <<trvars, fnvars>>

\* run, 137: the process is reaped, its exit code known
run_wait(w, rc) ==
    /\ pc[w] = "wait"
    /\ process' = [process EXCEPT ![w] = "reaped"]
    /\ returncode' = [returncode EXCEPT ![w] = rc]
    /\ pc' = [pc EXCEPT ![w] = "check"]
    /\ UNCHANGED <<dialogs, is_downloading, m_thread, m_worker, created, queue, startResult, uncaught, cancelled, termRequested, last_percentage, error_lines, nread, emitted, cancelAt, cancelPc, logged>>
    /\ UNCHANGED <<trvars, fnvars>>

\* a plausible slip: the cancellation check after wait() is missing
run_check_skipped(w) ==
    /\ pc[w] = "check"
    /\ pc' = [pc EXCEPT ![w] = "report"]
    /\ UNCHANGED <<dialogs, is_downloading, m_thread, m_worker, created, queue, startResult, uncaught, cancelled, process, termRequested, returncode, last_percentage, error_lines, nread, emitted, cancelAt, cancelPc, logged>>
    /\ UNCHANGED <<trvars, fnvars>>

\* run, 139-140: the cancellation flag is read once more after wait()
run_check(w) ==
    /\ pc[w] = "check"
    /\ pc' = [pc EXCEPT ![w] = IF cancelled[w] THEN "done" ELSE "report"]
    /\ UNCHANGED <<dialogs, is_downloading, m_thread, m_worker, created, queue, startResult, uncaught, cancelled, process, termRequested, returncode, last_percentage, error_lines, nread, emitted, cancelAt, cancelPc, logged>>
    /\ UNCHANGED <<trvars, fnvars>>

\* a plausible slip: the final progress event follows download_finished
run_finish_progress_last(w, bytes) ==
    /\ pc[w] = "report"
    /\ pc' = [pc EXCEPT ![w] = "done"]
    /\ IF returncode[w] = 0
       THEN Emit(w, <<download_finished(get_file_size_mb(bytes)),
                      progress_updated(100, <<>>, <<>>),
                      log_message(LOG_COMPLETE)>>)
       ELSE Emit(w, <<error_occurred(error_message(error_lines[w]))>>)
    /\ UNCHANGED <<dialogs, is_downloading, m_thread, m_worker, created, startResult, uncaught, cancelled, process, termRequested, returncode, last_percentage, error_lines, nread, cancelAt, cancelPc, logged>>
    /\ UNCHANGED <<trvars, fnvars>>

\* a plausible slip: the failure branch also reports completion
run_finish_both(w, bytes) ==
    /\ pc[w] = "report"
    /\ pc' = [pc EXCEPT ![w] = "done"]
    /\ IF returncode[w] = 0
       THEN Emit(w, <<progress_updated(100, <<>>, <<>>),
                      download_finished(get_file_size_mb(bytes)),
                      log_message(LOG_COMPLETE)>>)
       ELSE Emit(w, <<error_occurred(error_message(error_lines[w])),
                      download_finished(get_file_size_mb(bytes))>>)
    /\ UNCHANGED <<dialogs, is_downloading, m_thread, m_worker, created, startResult, uncaught, cancelled, process, termRequested, returncode, last_percentage, error_lines, nread, cancelAt, cancelPc, logged>>
    /\ UNCHANGED <<trvars, fnvars>>

\* run, 142-166: the size of the file is measured and the terminal signal
\* emitted; the statements after the signal only log, so run() returns here
run_finish(w, bytes) ==
    /\ pc[w] = "report"
    /\ pc' = [pc EXCEPT ![w] = "done"]
    /\ IF returncode[w] = 0
       THEN Emit(w, <<progress_updated(100, <<>>, <<>>),
                      download_finished(get_file_size_mb(bytes)),
                      log_message(LOG_COMPLETE)>>)
       ELSE Emit(w, <<error_occurred(error_message(error_lines[w]))>>)
    /\ UNCHANGED <<dialogs, is_downloading, m_thread, m_worker, created, startResult, uncaught, cancelled, process, termRequested, returncode, last_percentage, error_lines, nread, cancelAt, cancelPc, logged>>
    /\ UNCHANGED <<trvars, fnvars>>

(***************************************************************************)
(* DownloadManager.                                                        *)
(***************************************************************************)
workerVars == <<pc, cancelled, process, termRequested, returncode, last_percentage, error_lines, nread, emitted, cancelAt, cancelPc, logged>>

\* a new DownloadWorker and its QThread (start_download, 281-305)
LaunchWorker ==
    /\ created < MaxJobs
    /\ is_downloading' = TRUE
    /\ created' = created + 1
    /\ m_thread' = created + 1
    /\ m_worker' = created + 1
    /\ pc' = [pc EXCEPT ![created + 1] = "started"]
    /\ startResult' = "True"
    /\ UNCHANGED <<dialogs, queue, uncaught, cancelled, process, termRequested, returncode, last_percentage, error_lines, nread, emitted, cancelAt, cancelPc, logged>>
    /\ UNCHANGED <<trvars, fnvars>>

\* a plausible slip: the is_downloading guard is missing
start_download_unguarded == LaunchWorker

\* DownloadManager.start_download (257-308)
start_download ==
    IF is_downloading
    THEN /\ startResult' = "False"
         /\ UNCHANGED <<dialogs, is_downloading, m_thread, m_worker, created, queue, uncaught>>
         /\ UNCHANGED workerVars
         /\ UNCHANGED <<trvars, fnvars>>
    ELSE LaunchWorker

\* DownloadManager.cancel_download (310-314), from the main thread, at any
\* point of the worker's run
cancel_download ==
    /\ m_worker # 0
    /\ LET r == cancel(CancelView(m_worker))
       IN  /\ cancelled' = [cancelled EXCEPT ![m_worker] = r.cancelled]
           /\ termRequested' = [termRequested EXCEPT ![m_worker] = r.termRequested]
           /\ uncaught' = (uncaught \/ r.raised)
    /\ cancelAt' = [cancelAt EXCEPT ![m_worker] = IF @ = -1 THEN nread[m_worker] ELSE @]
    /\ cancelPc' = [cancelPc EXCEPT ![m_worker] = IF @ = "never" THEN pc[m_worker] ELSE @]
    /\ UNCHANGED <<dialogs, is_downloading, m_thread, m_worker, created, queue, startResult, pc, process, returncode, last_percentage, error_lines, nread, emitted, logged>>
    /\ UNCHANGED <<trvars, fnvars>>

\* DownloadManager._on_finished / _on_error (320-326): the queued slot runs
\* and re-emits the signal to the manager's listeners, which run inside the
\* emit. The listener of the main window (main_window.py 588-627) ends in a
\* message box, whose event loop delivers the slots still queued.
forward_signal ==
    /\ queue # <<>>
    /\ Head(queue).slot \in {"_on_finished", "_on_error"}
    /\ queue' = Tail(queue)
    /\ dialogs' = dialogs + 1
    /\ UNCHANGED <<is_downloading, m_thread, m_worker, created, startResult, uncaught>>
    /\ UNCHANGED workerVars
    /\ UNCHANGED <<trvars, fnvars>>

\* the message box of a listener is closed and the listener returns
\* (main_window.py 611-618, 627)
listener_returns ==
    /\ dialogs > 0
    /\ dialogs' = dialogs - 1
    /\ UNCHANGED <<is_downloading, m_thread, m_worker, created, queue, startResult, uncaught>>
    /\ UNCHANGED workerVars
    /\ UNCHANGED <<trvars, fnvars>>

\* DownloadManager._cleanup (332-346): the queued slot runs; the thread has
\* finished (the worker emits its terminal signal last), the worker object
\* is released
cleanup ==
    /\ queue # <<>>
    /\ Head(queue).slot = "_cleanup"
    /\ queue' = Tail(queue)
    /\ is_downloading' = FALSE
    /\ m_thread' = 0
    /\ m_worker' = 0
    /\ IF m_worker # 0
       THEN /\ pc' = [pc EXCEPT ![m_worker] = "deleted"]
            /\ cancelled' = [cancelled EXCEPT ![m_worker] = FALSE]
            /\ process' = [process EXCEPT ![m_worker] = "none"]
            /\ termRequested' = [termRequested EXCEPT ![m_worker] = FALSE]
            /\ returncode' = [returncode EXCEPT ![m_worker] = -1]
            /\ last_percentage' = [last_percentage EXCEPT ![m_worker] = 0]
            /\ error_lines' = [error_lines EXCEPT ![m_worker] = <<>>]
            /\ nread' = [nread EXCEPT ![m_worker] = 0]
            /\ emitted' = [emitted EXCEPT ![m_worker] = <<>>]
            /\ cancelAt' = [cancelAt EXCEPT ![m_worker] = -1]
            /\ cancelPc' = [cancelPc EXCEPT ![m_worker] = "never"]
            /\ logged' = [logged EXCEPT ![m_worker] = <<>>]
       ELSE UNCHANGED workerVars
    /\ UNCHANGED <<dialogs, created, startResult, uncaught>>
    /\ UNCHANGED <<trvars, fnvars>>

\* a new DownloadManager (245-250), no worker yet
DownloadNew ==
    /\ is_downloading = FALSE
    /\ m_thread = 0
    /\ m_worker = 0
    /\ created = 0
    /\ queue = <<>>
    /\ startResult = "none"
    /\ uncaught = FALSE
    /\ dialogs = 0
    /\ pc = [w \in Workers |-> "idle"]
    /\ cancelled = [w \in Workers |-> FALSE]
    /\ process = [w \in Workers |-> "none"]
    /\ termRequested = [w \in Workers |-> FALSE]
    /\ returncode = [w \in Workers |-> -1]
    /\ last_percentage = [w \in Workers |-> 0]
    /\ error_lines = [w \in Workers |-> <<>>]
    /\ nread = [w \in Workers |-> 0]
    /\ emitted = [w \in Workers |-> <<>>]
    /\ cancelAt = [w \in Workers |-> -1]
    /\ cancelPc = [w \in Workers |-> "never"]
    /\ logged = [w \in Workers |-> <<>>]

NextDownload ==
    \/ start_download
    \/ cancel_download
    \/ forward_signal
    \/ listener_returns
    \/ cleanup
    \/ \E w \in Workers, dir_ok \in BOOLEAN : run_prepare(w, dir_ok)
    \/ \E w \in Workers, outcome \in {"ok", "FileNotFoundError", "OSError"} : run_popen(w, outcome)
    \/ \E w \in Workers, line \in OutputLines : run_readline(w, line)
    \/ \E w \in Workers : run_eof(w)
    \/ \E w \in Workers, rc \in ExitCodes : run_wait(w, rc)
    \/ \E w \in Workers : run_check(w)
    \/ \E w \in Workers, bytes \in FileSizes : run_finish(w, bytes)

(***************************************************************************)
(* Properties of the download job controller.                              *)
(***************************************************************************)
IsProgress(e) == e.sig = "progress_updated"

IsFinished(e) == e.sig = "download_finished"

IsError(e) == e.sig = "error_occurred"

Count(seq, sig) == Cardinality({i \in 1..Len(seq) : seq[i].sig = sig})

\* run() has begun and has not returned
LivePcs == {"started", "popen", "read", "wait", "check", "report"}

\* C1: start_download called while is_downloading is True returns False and
\* leaves the manager, the running worker, its thread, its cancellation flag
\* and its subprocess as they were; no new worker is created.
C1_StartRejected ==
    [][(is_downloading /\ start_download)
         => /\ startResult' = "False"
            /\ UNCHANGED <<dialogs, is_downloading, m_thread, m_worker, created, queue, uncaught>>
            /\ UNCHANGED workerVars]_vars

\* a second start_download was rejected while the first worker reads output
C1_Witness ==
    /\ startResult = "False"
    /\ is_downloading
    /\ m_worker # 0
    /\ pc[m_worker] = "read"
    /\ created = 1

\* C2: once a job has reached a terminal state (run() has returned) and no
\* slot call is pending, the manager has cleared the job: is_downloading is
\* False and the worker and thread references are released (so the next
\* start_download is accepted).
C2_TerminalJobCleared ==
    \A w \in Workers :
        (pc[w] = "done" /\ queue = <<>>)
            => (~is_downloading /\ m_worker = 0 /\ m_thread = 0)

\* cancel() came while run() had not yet read its flag after wait()
EarlyPcs == {"started", "popen", "read", "wait", "check"}

C4_NoConsecutiveDuplicate ==
    \A w \in Workers :
        LET ps == SelectSeq(emitted[w], IsProgress)
        IN  \A i \in 1..(Len(ps) - 1) : ps[i].percentage # ps[i + 1].percentage

\* C5: a run emits at most one terminal signal; a job that was not cancelled
\* and whose process exited ends with download_finished alone (carrying a
\* measured size) on exit code 0 and with error_occurred alone otherwise.
C5_OneTerminalSignal ==
    \A w \in Workers :
        LET f == Count(emitted[w], "download_finished")
            e == Count(emitted[w], "error_occurred")
        IN  /\ f + e <= 1
            /\ (pc[w] = "done" /\ ~cancelled[w] /\ process[w] = "reaped")
                  => IF returncode[w] = 0 THEN f = 1 /\ e = 0 ELSE f = 0 /\ e = 1
            /\ \A i \in 1..Len(emitted[w]) :
                  IsFinished(emitted[w][i])
                     => emitted[w][i].size \in {get_file_size_mb(b) : b \in FileSizes}

\* a job that was not cancelled failed with a non-zero exit code
C5_Witness ==
    \E w \in Workers :
        /\ pc[w] = "done"
        /\ ~cancelled[w]
        /\ process[w] = "reaped"
        /\ returncode[w] = 1
        /\ Count(emitted[w], "error_occurred") = 1

\* C6: cancel is idempotent and safe at every point of the worker's run: no
\* exception leaves it, applying it twice gives the state one application
\* gives, and a step that sets the cancellation flag changes nothing else
\* but the terminate request.
C6_CancelSafe ==
    /\ [](~uncaught)
    /\ [](\A w \in Workers :
            /\ cancel(cancel(CancelView(w))) = cancel(CancelView(w))
            /\ cancel(CancelView(w)).cancelled
            /\ cancel(CancelView(w)).process = process[w])
    /\ [][\A w \in Workers :
            (~cancelled[w] /\ cancelled'[w])
               => UNCHANGED <<dialogs, is_downloading, m_thread, m_worker, created, queue, startResult, pc, process, returncode, last_percentage, error_lines, nread, emitted>>]_vars

\* cancel was called before any line was read and again while lines stream
\* (the terminate request reached the running subprocess)
C6_Witness ==
    \E w \in Workers :
        /\ cancelAt[w] = 0
        /\ cancelled[w]
        /\ termRequested[w]
        /\ pc[w] = "read"
        /\ process[w] = "running"

MatchesKnown(line) ==
    \/ Contains(line, <<"S", "i", "g", "n", " ", "i", "n">>)
    \/ Contains(Lower(line), <<"b", "o", "t">>)
    \/ Contains(Lower(line), <<"u", "n", "a", "v", "a", "i", "l", "a", "b", "l", "e">>)
    \/ Contains(Lower(line), <<"a", "g", "e">>)

\* C8: when a download fails with a non-zero exit code and no collected
\* error line matches a known substring, the message of error_occurred is
\* the fixed generic fallback, never the raw text of an output line.
C8_GenericFallback ==
    \A w \in Workers :
        (/\ pc[w] = "done"
         /\ process[w] = "reaped"
         /\ returncode[w] # 0
         /\ \A k \in 1..Len(error_lines[w]) : ~MatchesKnown(error_lines[w][k]))
            => \A i \in 1..Len(emitted[w]) :
                  IsError(emitted[w][i])
                     => emitted[w][i].msg = FixedMessage(MSG_GENERIC)


(***************************************************************************)
(* Transcriber: chunked transcription with retry, persisted progress and   *)
(* resume  (src/src/transcriber.py). Durations are in milliseconds.        *)
(***************************************************************************)
MAX_RETRIES == 5

RATE_LIMIT_BUFFER_SECONDS == 10

\* the wait assumed when the message carries none (719)
DEFAULT_WAIT_SECONDS == 300

\* float(g) for g = digits [ "." digits ], in milliseconds (the digits after
\* the third decimal are dropped)
MsOfFloat(g) ==
    LET dot == {k \in 1..Len(g) : g[k] = "."}
    IN  IF dot = {} THEN 1000 * DigitsValue(g)
        ELSE LET d == CHOOSE k \in dot : TRUE
             IN  1000 * DigitsValue(SubSeq(g, 1, d - 1))
                 + DigitsValue(SubSeq(SubSeq(g, d + 1, Len(g)) \o <<"0", "0", "0">>, 1, 3))

TRY_AGAIN_IN == <<"t", "r", "y", " ", "a", "g", "a", "i", "n", " ", "i", "n", " ">>

\* try again in (\d+)m(\d+(?:\.\d+)?)s        group 1: element 2, group 2: 4..5
minutes_seconds_pattern ==
    <<Literal(TRY_AGAIN_IN), Plus(DigitChars), Literal(<<"m">>),
      Plus(DigitChars), OptGroup(<<Literal(<<".">>), Plus(DigitChars)>>), Literal(<<"s">>)>>

\* try again in (\d+(?:\.\d+)?)s              group 1: elements 2..3
seconds_pattern ==
    <<Literal(TRY_AGAIN_IN),
      Plus(DigitChars), OptGroup(<<Literal(<<".">>), Plus(DigitChars)>>), Literal(<<"s">>)>>

\* try again in (\d+)m                        group 1: element 2
minutes_pattern ==
    <<Literal(TRY_AGAIN_IN), Plus(DigitChars), Literal(<<"m">>)>>

\* a plausible slip: the minutes are looked for first
WaitWith_minutes_first(msg, ms, sec, min) ==
    IF min.ok
    THEN 60000 * DigitsValue(Group(msg, min, 2, 2))
    ELSE IF ms.ok
    THEN 60000 * DigitsValue(Group(msg, ms, 2, 2)) + MsOfFloat(Group(msg, ms, 4, 5))
    ELSE IF sec.ok
    THEN MsOfFloat(Group(msg, sec, 2, 3))
    ELSE 1000 * DEFAULT_WAIT_SECONDS

\* the three searches of _parse_rate_limit_wait, in the order of the code
WaitWith(msg, ms, sec, min) ==
    IF ms.ok
    THEN 60000 * DigitsValue(Group(msg, ms, 2, 2)) + MsOfFloat(Group(msg, ms, 4, 5))
    ELSE IF sec.ok
    THEN MsOfFloat(Group(msg, sec, 2, 3))
    ELSE IF min.ok
    THEN 60000 * DigitsValue(Group(msg, min, 2, 2))
    ELSE 1000 * DEFAULT_WAIT_SECONDS

\* Transcriber._parse_rate_limit_wait (692-723)
parse_rate_limit_wait(error_msg) ==
    WaitWith(error_msg, Search(minutes_seconds_pattern, error_msg),
             Search(seconds_pattern, error_msg), Search(minutes_pattern, error_msg))

\* the test of line 209
IsRateLimit(error_msg) ==
    \/ Contains(error_msg, <<"R", "a", "t", "e", " ", "l", "i", "m", "i", "t">>)
    \/ Contains(Lower(error_msg), <<"r", "a", "t", "e", " ", "l", "i", "m", "i", "t">>)

\* "\n\n".join(texts)
RECURSIVE JoinParagraphs(_)
JoinParagraphs(texts) ==
    IF texts = <<>> THEN <<>>
    ELSE IF Len(texts) = 1 THEN texts[1]
    ELSE texts[1] \o <<"\n", "\n">> \o JoinParagraphs(Tail(texts))


(***************************************************************************)
(* The speech API and the files of a chunked transcription. The chunk      *)
(* files of a source file are chunk_000.mp3, chunk_001.mp3, ... in one     *)
(* directory of the system's temporary directory (513, 518): a chunk path  *)
(* is its index. The chunk plans of the model are short; the code treats a *)
(* plan of any length alike.                                               *)
(***************************************************************************)
\* First part.
TEXT_A == <<"F", "i", "r", "s", "t", " ", "p", "a", "r", "t", ".">>

\* Second part.
TEXT_B == <<"S", "e", "c", "o", "n", "d", " ", "p", "a", "r", "t", ".">>

\* Rate limit reached, please try again in 4m12.5s
ERR_RATE_MINUTES == <<"R", "a", "t", "e", " ", "l", "i", "m", "i", "t", " ", "r", "e", "a", "c", "h", "e", "d", ",", " ", "p", "l", "e", "a", "s", "e", " ", "t", "r", "y", " ", "a", "g", "a", "i", "n", " ", "i", "n", " ", "4", "m", "1", "2", ".", "5", "s">>

\* Rate limit reached, please try again in 0s
ERR_RATE_NOW == <<"R", "a", "t", "e", " ", "l", "i", "m", "i", "t", " ", "r", "e", "a", "c", "h", "e", "d", ",", " ", "p", "l", "e", "a", "s", "e", " ", "t", "r", "y", " ", "a", "g", "a", "i", "n", " ", "i", "n", " ", "0", "s">>

\* Rate limit exceeded
ERR_RATE_PLAIN == <<"R", "a", "t", "e", " ", "l", "i", "m", "i", "t", " ", "e", "x", "c", "e", "e", "d", "e", "d">>

\* Invalid API Key
ERR_INVALID_KEY == <<"I", "n", "v", "a", "l", "i", "d", " ", "A", "P", "I", " ", "K", "e", "y">>

\* No such file
ERR_NO_FILE == <<"N", "o", " ", "s", "u", "c", "h", " ", "f", "i", "l", "e">>

\* Groq API error:
GROQ_ERROR_PREFIX == <<"G", "r", "o", "q", " ", "A", "P", "I", " ", "e", "r", "r", "o", "r", ":", " ">>

\* what the speech API answers to one request
\* seconds of audio in one chunk (36)
CHUNK_DURATION_SECONDS == 600

\* the segments of the two transcripts: start in milliseconds from the start
\* of the audio file sent, and the text; one segment has no text
SEGMENTS_A ==
    <<[start |-> 1500, text |-> <<" ", "F", "i", "r", "s", "t">>],
      [start |-> 300000, text |-> <<" ">>],
      [start |-> 599900, text |-> <<" ", "p", "a", "r", "t", ".">>]>>

SEGMENTS_B == <<[start |-> 0, text |-> <<" ", "S", "e", "c", "o", "n", "d">>]>>

GroqResponses ==
    {[status |-> 200, text |-> TEXT_A, language |-> "english", segments |-> SEGMENTS_A, message |-> <<>>],
     [status |-> 200, text |-> TEXT_B, language |-> "spanish", segments |-> SEGMENTS_B, message |-> <<>>],
     [status |-> 429, text |-> <<>>, language |-> "", segments |-> <<>>, message |-> ERR_RATE_MINUTES],
     [status |-> 429, text |-> <<>>, language |-> "", segments |-> <<>>, message |-> ERR_RATE_NOW],
     [status |-> 429, text |-> <<>>, language |-> "", segments |-> <<>>, message |-> ERR_RATE_PLAIN],
     [status |-> 401, text |-> <<>>, language |-> "", segments |-> <<>>, message |-> ERR_INVALID_KEY]}

\* str(n) for n >= 0
RECURSIVE Decimal(_)
Decimal(n) == IF n < 10 THEN <<Digits[n + 1]>> ELSE Decimal(n \div 10) \o <<Digits[(n % 10) + 1]>>

\* f"{n:02d}"
TwoDigits(n) == IF n < 10 THEN <<"0">> \o Decimal(n) ELSE Decimal(n)

\* Transcriber._format_time (681-690); the time in milliseconds
format_time(ms) ==
    LET seconds == ms \div 1000
        hours   == seconds \div 3600
        minutes == (seconds % 3600) \div 60
        secs    == seconds % 60
    IN  IF hours > 0
        THEN TwoDigits(hours) \o <<":">> \o TwoDigits(minutes) \o <<":">> \o TwoDigits(secs)
        ELSE TwoDigits(minutes) \o <<":">> \o TwoDigits(secs)

\* "\n".join(lines)
RECURSIVE JoinLines(_)
JoinLines(lines) ==
    IF lines = <<>> THEN <<>>
    ELSE IF Len(lines) = 1 THEN lines[1]
    ELSE lines[1] \o <<"\n">> \o JoinLines(Tail(lines))

\* the lines of _format_timestamps (672-678)
RECURSIVE TimestampLines(_, _)
TimestampLines(segments, time_offset) ==
    IF segments = <<>> THEN <<>>
    ELSE LET start == Head(segments).start + time_offset
             text  == Strip(Head(segments).text)
         IN  (IF text # <<>>
              THEN <<(<<"[">> \o format_time(start) \o <<"]", " ">> \o text)>>
              ELSE <<>>)
             \o TimestampLines(Tail(segments), time_offset)

\* Transcriber._format_timestamps (662-679)
format_timestamps(segments, time_offset) == JoinLines(TimestampLines(segments, time_offset))

\* a plausible slip: the offset counts from the chunk the run started at
time_offset_from_start(i, sc) == (i - sc) * 1000 * CHUNK_DURATION_SECONDS

\* _transcribe_chunks, 196: the offset of chunk i, in milliseconds; sc is
\* start_chunk
time_offset(i, sc) == i * 1000 * CHUNK_DURATION_SECONDS

\* Transcriber._transcribe_groq (585-660) on one chunk: posted tells whether
\* the request was sent (stat() on a missing file raises before it is)
transcribe_groq(path, response) ==
    IF path \notin chunk_files
    THEN [posted |-> FALSE, failed |-> TRUE, error |-> ERR_NO_FILE, text |-> <<>>, language |-> "", segments |-> <<>>]
    ELSE IF response.status = 200
    THEN [posted |-> TRUE, failed |-> FALSE, error |-> <<>>, text |-> response.text, language |-> response.language, segments |-> response.segments]
    ELSE [posted |-> TRUE, failed |-> TRUE, error |-> GROQ_ERROR_PREFIX \o response.message, text |-> <<>>, language |-> "", segments |-> <<>>]

\* no progress file
NoFile ==
    [exists |-> FALSE, readable |-> FALSE, completed_chunks |-> 0, total_chunks |-> 0, texts |-> <<>>, timestamped_texts |-> <<>>,
     language |-> "", include_timestamps |-> FALSE, chunk_paths |-> <<>>]

\* the progress file after open(progress_file, 'w') (308) and before json.dump
\* (309) has written it out: json.load raises on it
TornFile == [NoFile EXCEPT !.exists = TRUE]

\* a plausible slip: the record does not keep the timestamped texts
progress_data_untimed(texts, timestamped_texts, language, completed_chunks) ==
    [exists |-> TRUE, readable |-> TRUE, completed_chunks |-> completed_chunks, total_chunks |-> Len(audio_chunks),
     texts |-> texts, timestamped_texts |-> <<>>, language |-> language,
     include_timestamps |-> include_timestamps, chunk_paths |-> audio_chunks]

\* the record _save_progress writes (298-307)
progress_data(texts, timestamped_texts, language, completed_chunks) ==
    [exists |-> TRUE, readable |-> TRUE, completed_chunks |-> completed_chunks, total_chunks |-> Len(audio_chunks),
     texts |-> texts, timestamped_texts |-> timestamped_texts, language |-> language,
     include_timestamps |-> include_timestamps, chunk_paths |-> audio_chunks]

\* all(p.exists() for p in paths)
all_exist(paths) == \A j \in 1..Len(paths) : paths[j] \in chunk_files

\* a value returned by transcribe or resume_transcription; has_timestamped:
\* the key "timestamped_text" is in it
Result(kind, text, language, chunks, chunk, cause) ==
    [kind |-> kind, text |-> text, language |-> language, chunks |-> chunks, chunk |-> chunk, cause |-> cause,
     has_timestamped |-> FALSE, timestamped_text |-> <<>>]

NoResult == Result("none", <<>>, "", 0, 0, <<>>)

ErrorResult(kind) == Result(kind, <<>>, "", 0, 0, <<>>)

\* the value None of check_resume_available
NoResume == [available |-> FALSE, completed_chunks |-> 0, total_chunks |-> 0]


(***************************************************************************)
(* Transcriber: the chunk loop.                                            *)
(***************************************************************************)
\* Transcriber._save_progress (282-312)
save_progress(texts, timestamped_texts, language, completed_chunks) ==
    /\ progress_file' = (source_file \/ progress_file)
    /\ progress_record' =
          IF source_file THEN progress_data(texts, timestamped_texts, language, completed_chunks)
          ELSE progress_record

\* Transcriber._cleanup_progress (314-322); attr: self._progress_file is set
cleanup_progress(attr) ==
    /\ progress_record' = IF attr THEN NoFile ELSE progress_record
    /\ progress_file' = FALSE

\* a plausible slip: the chunk files are not removed
cleanup_chunks_skipped ==
    /\ UNCHANGED chunk_files
    /\ audio_chunks' = <<>>

\* Transcriber._cleanup_chunks (267-280)
cleanup_chunks ==
    /\ chunk_files' = chunk_files \ Range(audio_chunks)
    /\ audio_chunks' = <<>>

\* a plausible slip: the texts of the earlier run are not loaded
transcribe_chunks_begin_unloaded(sc, attr) ==
    /\ start_chunk' = sc
    /\ t_retry' = 0
    /\ IF ~groq_api_key
       THEN /\ t_result' = ErrorResult("no_api_key")
            /\ t_pc' = "idle"
            /\ t_i' = 0
            /\ all_text' = <<>>
            /\ all_timestamped_text' = <<>>
            /\ detected_language' = ""
       ELSE /\ all_text' = <<>>
            /\ all_timestamped_text' = <<>>
            /\ detected_language' = ""
            /\ t_i' = sc
            /\ t_pc' = "chunk"
            /\ t_result' = NoResult

\* _transcribe_chunks, 166-191: the key is tested, the progress of an
\* earlier run loaded, the chunks before sc skipped; attr: self._progress_file
\* is set when the method is entered
transcribe_chunks_begin(sc, attr) ==
    /\ start_chunk' = sc
    /\ t_retry' = 0
    /\ IF ~groq_api_key
       THEN /\ t_result' = ErrorResult("no_api_key")
            /\ t_pc' = "idle"
            /\ t_i' = 0
            /\ all_text' = <<>>
            /\ all_timestamped_text' = <<>>
            /\ detected_language' = ""
       ELSE LET loaded == sc > 0 /\ attr /\ progress_record.exists /\ progress_record.readable
            IN  /\ all_text' = IF loaded THEN progress_record.texts ELSE <<>>
                /\ all_timestamped_text' = IF loaded THEN progress_record.timestamped_texts ELSE <<>>
                /\ detected_language' = IF loaded THEN progress_record.language ELSE ""
                /\ t_i' = sc
                /\ t_pc' = "chunk"
                /\ t_result' = NoResult

\* what _transcribe_chunks (209-211) finds in the error messages an attempt
\* can fail with
ParsedError ==
    [error_msg \in {<<>>, ERR_NO_FILE} \cup {GROQ_ERROR_PREFIX \o r.message : r \in GroqResponses}
        |-> [rate_limit |-> IsRateLimit(error_msg), wait_time |-> parse_rate_limit_wait(error_msg)]]

\* a plausible slip: the retry cap is not tested
should_retry_uncapped(error_msg, retry) ==
    IsRateLimit(error_msg) /\ parse_rate_limit_wait(error_msg) # 0

\* a plausible slip: every error is retried
should_retry_any(error_msg, retry) == retry < MAX_RETRIES - 1

\* _transcribe_chunks, 209-212: the attempt failed with error_msg; whether the
\* loop sleeps and tries again
should_retry(error_msg, retry) ==
    /\ ParsedError[error_msg].rate_limit
    /\ ParsedError[error_msg].wait_time # 0
    /\ retry < MAX_RETRIES - 1

\* _transcribe_chunks, 193-238: one attempt on chunk i, then the sleep before
\* the next attempt, or the saved progress and the error, or the appended
\* text and the saved progress
transcribe_chunk(response) ==
    /\ t_pc = "chunk"
    /\ t_i < Len(audio_chunks)
    /\ LET result    == transcribe_groq(audio_chunks[t_i + 1], response)
           wait_time == ParsedError[result.error].wait_time
           first     == api_calls = <<>> \/ api_calls[Len(api_calls)] # t_i
       IN  /\ api_calls' = IF result.posted /\ first THEN Append(api_calls, t_i) ELSE api_calls
           /\ last_error' = result.error
           /\ IF ~result.failed
              THEN /\ all_text' = Append(all_text, result.text)
                   /\ all_timestamped_text' =
                         IF include_timestamps
                         THEN Append(all_timestamped_text,
                                     format_timestamps(result.segments, time_offset(t_i, start_chunk)))
                         ELSE all_timestamped_text
                   /\ detected_language' = IF detected_language = "" THEN result.language ELSE detected_language
                   /\ save_progress(all_text', all_timestamped_text', detected_language', t_i + 1)
                   /\ t_i' = t_i + 1
                   /\ t_retry' = 0
                   /\ last_sleep' = 0
                   /\ chunk_calls' = 0
                   /\ transcripts' = SubSeq(transcripts, 1, t_i) \o <<result.text>>
                   /\ UNCHANGED <<t_pc, t_result>>
              ELSE IF should_retry(result.error, t_retry)
              THEN /\ last_sleep' = wait_time + 1000 * RATE_LIMIT_BUFFER_SECONDS
                   /\ t_retry' = t_retry + 1
                   /\ chunk_calls' = chunk_calls + 1
                   /\ UNCHANGED transcripts
                   /\ UNCHANGED <<all_text, all_timestamped_text, detected_language, progress_file, progress_record, t_i, t_pc, t_result>>
              ELSE /\ save_progress(all_text, all_timestamped_text, detected_language, t_i)
                   /\ t_result' = Result("chunk_failed", <<>>, "", Len(audio_chunks), t_i + 1, result.error)
                   /\ t_pc' = "idle"
                   /\ chunk_calls' = IF result.posted THEN chunk_calls + 1 ELSE chunk_calls
                   /\ UNCHANGED <<all_text, all_timestamped_text, detected_language, last_sleep, t_i, t_retry, transcripts>>
    /\ UNCHANGED <<num_chunks, chunk_files, groq_api_key, audio_chunks, source_file, t_op, data, start_chunk, resume_info, include_timestamps, timestamps_asked>>
    /\ UNCHANGED <<dlvars, fnvars>>

\* _transcribe_chunks, 240-260: the loop is over; the combined result, the
\* progress file and the chunk files removed
transcribe_chunks_finish ==
    /\ t_pc = "chunk"
    /\ t_i >= Len(audio_chunks)
    /\ LET response == Result("ok", JoinParagraphs(all_text),
                               IF detected_language = "" THEN "unknown" ELSE detected_language,
                               Len(audio_chunks), 0, <<>>)
       IN  t_result' = IF include_timestamps /\ all_timestamped_text # <<>>
                       THEN [response EXCEPT !.has_timestamped = TRUE,
                                             !.timestamped_text = JoinLines(all_timestamped_text)]
                       ELSE response
    /\ cleanup_progress(progress_file)
    /\ cleanup_chunks
    /\ t_pc' = "idle"
    /\ UNCHANGED <<num_chunks, groq_api_key, source_file, t_op, data, start_chunk, t_i, t_retry, all_text, detected_language, include_timestamps, all_timestamped_text, api_calls, last_sleep, resume_info, chunk_calls, last_error, transcripts, timestamps_asked>>
    /\ UNCHANGED <<dlvars, fnvars>>


(***************************************************************************)
(* Transcriber: the public methods, and what surrounds the object.         *)
(***************************************************************************)
\* a plausible slip: the files of a failed extraction are left behind
unlink_extracted_skipped(files, extracted, partial) ==
    files \cup 0..(extracted - 1) \cup (IF partial THEN {extracted} ELSE {})

\* the chunk files after a failed extraction (_extract_chunked_audio,
\* 516-563): the chunks before the failing one were written (-y) and appended
\* to _audio_chunks, and are unlinked (557-561); the failing run may leave a
\* file of its own, which is in no list
unlink_extracted(files, extracted, partial) ==
    (files \ 0..(extracted - 1)) \cup (IF partial THEN {extracted} ELSE {})

\* Transcriber.transcribe (81-122) on a source file that needs chunked
\* extraction (_extract_chunked_audio, 509-563); extracted: the number of
\* chunks ffmpeg extracts before it fails, num_chunks when it does not fail;
\* partial: the failing run leaves a file; include: the argument
\* include_timestamps
transcribe(extracted, partial, include) ==
    /\ t_pc = "idle"
    /\ extracted <= num_chunks
    /\ t_op' = "transcribe"
    /\ include_timestamps' = include
    /\ timestamps_asked' = include
    /\ source_file' = TRUE
    /\ data' = NoFile
    /\ api_calls' = <<>>
    /\ last_sleep' = 0
    /\ chunk_calls' = 0
    /\ last_error' = <<>>
    /\ UNCHANGED transcripts
    /\ (extracted = num_chunks => ~partial)
    /\ IF extracted = num_chunks
       THEN /\ audio_chunks' = [j \in 1..num_chunks |-> j - 1]
            /\ chunk_files' = chunk_files \cup 0..(num_chunks - 1)
            /\ transcribe_chunks_begin(0, progress_file)
       ELSE /\ audio_chunks' = <<>>
            /\ chunk_files' = unlink_extracted(chunk_files, extracted, partial)
            /\ t_result' = ErrorResult("extraction_failed")
            /\ UNCHANGED <<t_pc, start_chunk, t_i, t_retry, all_text, all_timestamped_text, detected_language>>
    /\ UNCHANGED <<num_chunks, progress_record, groq_api_key, progress_file, resume_info>>
    /\ UNCHANGED <<dlvars, fnvars>>

\* a plausible slip: the existence of the chunk files is not verified
check_resume_available_unverified ==
    /\ t_pc = "idle"
    /\ resume_info' =
          IF progress_record.exists /\ progress_record.readable
          THEN [available |-> TRUE,
                completed_chunks |-> progress_record.completed_chunks,
                total_chunks |-> progress_record.total_chunks]
          ELSE NoResume
    /\ UNCHANGED <<num_chunks, chunk_files, progress_record, groq_api_key, audio_chunks, progress_file, source_file, t_pc, t_op, data, start_chunk, t_i, t_retry, all_text, detected_language, include_timestamps, all_timestamped_text, api_calls, last_sleep, t_result, chunk_calls, last_error, transcripts, timestamps_asked>>
    /\ UNCHANGED <<dlvars, fnvars>>

\* Transcriber.check_resume_available (324-356)
check_resume_available ==
    /\ t_pc = "idle"
    /\ IF ~progress_record.exists
       THEN /\ resume_info' = NoResume
            /\ UNCHANGED progress_record
       ELSE IF ~progress_record.readable
       THEN /\ resume_info' = NoResume
            /\ UNCHANGED progress_record
       ELSE IF ~all_exist(progress_record.chunk_paths)
       THEN /\ progress_record' = NoFile
            /\ resume_info' = NoResume
       ELSE /\ resume_info' = [available |-> TRUE,
                               completed_chunks |-> progress_record.completed_chunks,
                               total_chunks |-> progress_record.total_chunks]
            /\ UNCHANGED progress_record
    /\ UNCHANGED <<num_chunks, chunk_files, groq_api_key, audio_chunks, progress_file, source_file, t_pc, t_op, data, start_chunk, t_i, t_retry, all_text, detected_language, include_timestamps, all_timestamped_text, api_calls, last_sleep, t_result, chunk_calls, last_error, transcripts, timestamps_asked>>
    /\ UNCHANGED <<dlvars, fnvars>>

\* resume_transcription (372-406) starting the chunk loop at index sc
ResumeFrom(sc) ==
    /\ t_pc = "idle"
    /\ t_op' = "resume"
    /\ api_calls' = <<>>
    /\ last_sleep' = 0
    /\ chunk_calls' = 0
    /\ last_error' = <<>>
    /\ UNCHANGED <<transcripts, timestamps_asked>>
    /\ data' = progress_record
    /\ IF ~progress_record.exists
       THEN /\ t_result' = ErrorResult("no_resumable")
            /\ UNCHANGED <<progress_record, audio_chunks, progress_file, source_file, include_timestamps, t_pc, start_chunk, t_i, t_retry, all_text, all_timestamped_text, detected_language>>
       ELSE IF ~progress_record.readable
       THEN /\ t_result' = ErrorResult("failed_to_resume")
            /\ UNCHANGED <<progress_record, audio_chunks, progress_file, source_file, include_timestamps, t_pc, start_chunk, t_i, t_retry, all_text, all_timestamped_text, detected_language>>
       ELSE /\ source_file' = TRUE
            /\ include_timestamps' = progress_record.include_timestamps
            /\ audio_chunks' = progress_record.chunk_paths
            /\ IF ~all_exist(progress_record.chunk_paths)
               THEN /\ cleanup_progress(TRUE)
                    /\ t_result' = ErrorResult("chunks_missing")
                    /\ UNCHANGED <<t_pc, start_chunk, t_i, t_retry, all_text, all_timestamped_text, detected_language>>
               ELSE /\ progress_file' = TRUE
                    /\ transcribe_chunks_begin(sc, TRUE)
                    /\ UNCHANGED progress_record
    /\ UNCHANGED <<num_chunks, chunk_files, groq_api_key, resume_info>>
    /\ UNCHANGED <<dlvars, fnvars>>

\* a plausible slip: the recorded index is not passed on
resume_from_zero == ResumeFrom(0)

\* Transcriber.resume_transcription (358-406)
resume_transcription == ResumeFrom(progress_record.completed_chunks)

\* a chunk file disappears from the temporary directory
delete_chunk_file(c) ==
    /\ c \in chunk_files
    /\ chunk_files' = chunk_files \ {c}
    /\ UNCHANGED <<num_chunks, progress_record, groq_api_key, audio_chunks, progress_file, source_file, t_pc, t_op, data, start_chunk, t_i, t_retry, all_text, detected_language, include_timestamps, all_timestamped_text, api_calls, last_sleep, t_result, resume_info, chunk_calls, last_error, transcripts, timestamps_asked>>
    /\ UNCHANGED <<dlvars, fnvars>>

\* the application ends (at any point of a call) and starts again: a new
\* Transcriber (45-55), the files stay
restart(key) ==
    /\ groq_api_key' = key
    /\ audio_chunks' = <<>>
    /\ progress_file' = FALSE
    /\ source_file' = FALSE
    /\ t_pc' = "idle"
    /\ t_op' = "none"
    /\ data' = NoFile
    /\ start_chunk' = 0
    /\ t_i' = 0
    /\ t_retry' = 0
    /\ all_text' = <<>>
    /\ detected_language' = ""
    /\ include_timestamps' = FALSE
    /\ all_timestamped_text' = <<>>
    /\ api_calls' = <<>>
    /\ last_sleep' = 0
    /\ chunk_calls' = 0
    /\ last_error' = <<>>
    /\ UNCHANGED <<transcripts, timestamps_asked>>
    /\ t_result' = NoResult
    /\ resume_info' = NoResume
    /\ UNCHANGED <<num_chunks, chunk_files, progress_record>>
    /\ UNCHANGED <<dlvars, fnvars>>

\* the application ends while _save_progress writes the record of a chunk
\* that succeeded (229-237): the file is left as open(.., 'w') made it; then
\* the application starts again with the settings it had
kill_during_save(response) ==
    /\ t_pc = "chunk"
    /\ t_i < Len(audio_chunks)
    /\ source_file
    /\ LET result == transcribe_groq(audio_chunks[t_i + 1], response)
       IN  /\ ~result.failed
           /\ transcripts' = SubSeq(transcripts, 1, t_i) \o <<result.text>>
    /\ progress_record' = TornFile
    /\ audio_chunks' = <<>>
    /\ progress_file' = FALSE
    /\ source_file' = FALSE
    /\ t_pc' = "idle"
    /\ t_op' = "none"
    /\ data' = NoFile
    /\ start_chunk' = 0
    /\ t_i' = 0
    /\ t_retry' = 0
    /\ all_text' = <<>>
    /\ detected_language' = ""
    /\ include_timestamps' = FALSE
    /\ all_timestamped_text' = <<>>
    /\ api_calls' = <<>>
    /\ last_sleep' = 0
    /\ chunk_calls' = 0
    /\ last_error' = <<>>
    /\ t_result' = NoResult
    /\ resume_info' = NoResume
    /\ UNCHANGED <<num_chunks, chunk_files, groq_api_key, timestamps_asked>>
    /\ UNCHANGED <<dlvars, fnvars>>

\* a new Transcriber, no file of an earlier run
TranscriberNew ==
    /\ chunk_files = {}
    /\ progress_record = NoFile
    /\ audio_chunks = <<>>
    /\ progress_file = FALSE
    /\ source_file = FALSE
    /\ t_pc = "idle"
    /\ t_op = "none"
    /\ data = NoFile
    /\ start_chunk = 0
    /\ t_i = 0
    /\ t_retry = 0
    /\ all_text = <<>>
    /\ detected_language = ""
    /\ include_timestamps = FALSE
    /\ all_timestamped_text = <<>>
    /\ api_calls = <<>>
    /\ last_sleep = 0
    /\ t_result = NoResult
    /\ resume_info = NoResume
    /\ chunk_calls = 0
    /\ last_error = <<>>
    /\ transcripts = <<>>
    /\ timestamps_asked = FALSE

\* _parse_rate_limit_wait is not called
NoWait ==
    /\ wait_msg = <<>>
    /\ wait_parts = <<>>
    /\ wait_ms = -1

\* _extract_audio is not called
\* transcribe is not called on a file that needs no chunks
NoSinglePass ==
    /\ source_present = TRUE
    /\ local_whisper = FALSE
    /\ temp_audio = "none"
    /\ audio_path = "unset"
    /\ single_pc = "idle"
    /\ single_result = "none"

NoPlan ==
    /\ suffix_is_audio = FALSE
    /\ st_size = 0
    /\ duration_probed = FALSE
    /\ duration_ms = 0
    /\ chunk_windows = <<>>
    /\ NoSinglePass

\* _split_into_chunks is not called
NoSplit ==
    /\ split_text = <<>>
    /\ split_chunks = <<>>

\* _parse_progress_line is not called
NoProgressCall ==
    /\ progress_line = <<>>
    /\ progress_parts = <<>>
    /\ progress_event = NoProgress

\* no function has been called on its own
\* no value returned by proofread
NoProofResult ==
    [kind |-> "none", chunk |-> 0, total |-> 0, cause |-> "", edited_text |-> <<>>,
     summary |-> [processed |-> 0, shown |-> <<>>, more |-> 0, single |-> <<>>], chunks |-> 0]

\* proofread is not called
NoProofread ==
    /\ p_api_key = FALSE
    /\ p_text = <<>>
    /\ p_pc = "idle"
    /\ p_chunks = <<>>
    /\ p_i = 0
    /\ all_edited = <<>>
    /\ all_summaries = <<>>
    /\ p_result = NoProofResult
    /\ p_sent = <<>>

NothingCalled ==
    /\ called = "none"
    /\ NoWait
    /\ NoPlan
    /\ NoSplit
    /\ NoProgressCall
    /\ NoProofread

InitTranscribe ==
    /\ DownloadNew
    /\ num_chunks \in 1..MaxChunks
    /\ groq_api_key \in BOOLEAN
    /\ TranscriberNew
    /\ NothingCalled

NextTranscribe ==
    \/ \E extracted \in 0..MaxChunks, partial \in BOOLEAN : transcribe(extracted, partial, FALSE)
    \/ \E response \in GroqResponses : transcribe_chunk(response)
    \/ transcribe_chunks_finish
    \/ check_resume_available
    \/ resume_transcription
    \/ \E c \in 0..(MaxChunks - 1) : delete_chunk_file(c)
    \/ \E key \in BOOLEAN : restart(key)
    \/ \E response \in GroqResponses : kill_during_save(response)

(***************************************************************************)
(* Specifications: the download job controller, the transcriber.           *)
(***************************************************************************)
InitDownload ==
    /\ DownloadNew
    /\ num_chunks = 1
    /\ groq_api_key = FALSE
    /\ TranscriberNew
    /\ NothingCalled

SpecDownload == InitDownload /\ [][NextDownload]_vars

SpecTranscribe == InitTranscribe /\ [][NextTranscribe]_vars

(***************************************************************************)
(* The download controller with its event loop: a slot call queued on the  *)
(* main thread is run by QApplication's event loop, which keeps running    *)
(* while the window is open, so the head of the queue is always served.    *)
(***************************************************************************)
SpecDownloadLoop ==
    InitDownload /\ [][NextDownload]_vars /\ WF_vars(forward_signal) /\ WF_vars(cleanup)

\* run() returned without a subprocess ever created
NeverLaunched(w) == pc[w] = "done" /\ process[w] = "none"

\* C24: when the executable is not found at launch (Popen raises
\* FileNotFoundError), the run ends with the log line and exactly one
\* error_occurred carrying the tool-not-found message, no progress_updated
\* and no download_finished, no process; nothing is emitted afterwards, and
\* the manager returns to idle.
C24_ToolNotFound ==
    /\ [][\A w \in Workers :
            run_popen(w, "FileNotFoundError")
               => /\ emitted'[w] = <<log_message(LOG_STARTING),
                                      error_occurred(FixedMessage(MSG_NOT_FOUND))>>
                  /\ NeverLaunched(w)']_vars
    /\ [][\A w \in Workers :
            (NeverLaunched(w) /\ pc'[w] = "done") => emitted'[w] = emitted[w]]_vars
    /\ \A w \in Workers :
          (NeverLaunched(w) /\ Count(emitted[w], "log_message") = 1)
             ~> (~is_downloading /\ m_worker = 0 /\ pc[w] = "deleted")

\* the launch failed with FileNotFoundError, the slots are still queued
C24_Witness ==
    \E w \in Workers :
        /\ NeverLaunched(w)
        /\ emitted[w] = <<log_message(LOG_STARTING), error_occurred(FixedMessage(MSG_NOT_FOUND))>>
        /\ is_downloading
        /\ Len(queue) = 2

\* C25: when the destination directory cannot be created, the run ends at
\* once with exactly one error_occurred carrying the permission message: no
\* other signal, no subprocess, nothing emitted afterwards, and the manager
\* returns to idle.
C25_DirectoryNotCreated ==
    /\ [][\A w \in Workers :
            run_prepare(w, FALSE)
               => /\ emitted'[w] = <<error_occurred(FixedMessage(MSG_PERMISSION))>>
                  /\ NeverLaunched(w)']_vars
    /\ [](\A w \in Workers :
            (emitted[w] # <<>> /\ emitted[w][1] = error_occurred(FixedMessage(MSG_PERMISSION)))
               => (Len(emitted[w]) = 1 /\ NeverLaunched(w)))
    /\ \A w \in Workers :
          (NeverLaunched(w) /\ Count(emitted[w], "log_message") = 0)
             ~> (~is_downloading /\ m_worker = 0 /\ pc[w] = "deleted")

\* the second job failed on its directory after the first was cleaned up
C25_Witness ==
    /\ pc[1] = "deleted"
    /\ NeverLaunched(2)
    /\ emitted[2] = <<error_occurred(FixedMessage(MSG_PERMISSION))>>
    /\ is_downloading

(***************************************************************************)
(* _parse_rate_limit_wait on its own: messages built from phrases          *)
(* "try again in ..." of the three forms, and messages of no form.         *)
(***************************************************************************)
\* phrases "try again in" of one message
MaxPhrases == 2

\* the minutes written in a phrase, with their value
MinuteTexts ==
    {[text |-> <<"4">>, n |-> 4], [text |-> <<"2">>, n |-> 2], [text |-> <<"1", "2">>, n |-> 12]}

\* the seconds written in a phrase, with their value in milliseconds
SecondTexts ==
    {[text |-> <<"1", "2", ".", "5">>, ms |-> 12500], [text |-> <<"3", "0">>, ms |-> 30000],
     [text |-> <<"0">>, ms |-> 0], [text |-> <<"7", ".", "2", "5">>, ms |-> 7250]}

Phrases ==
    [kind : {"XmYs"}, x : MinuteTexts, y : SecondTexts]
    \cup [kind : {"Xs"}, y : SecondTexts]
    \cup [kind : {"Xm"}, x : MinuteTexts]

PhraseText(p) ==
    TRY_AGAIN_IN \o
    (CASE p.kind = "XmYs" -> p.x.text \o <<"m">> \o p.y.text \o <<"s">>
       [] p.kind = "Xs"   -> p.y.text \o <<"s">>
       [] p.kind = "Xm"   -> p.x.text \o <<"m">>)

MessagePrefixes == {<<>>, <<"R", "a", "t", "e", " ", "l", "i", "m", "i", "t", " ", "r", "e", "a", "c", "h", "e", "d", ",", " ", "p", "l", "e", "a", "s", "e", " ">>}

\* the phrases joined with " or " after the prefix, closed with a full stop
RECURSIVE JoinPhrases(_)
JoinPhrases(ps) ==
    IF ps = <<>> THEN <<>>
    ELSE IF Len(ps) = 1 THEN PhraseText(ps[1])
    ELSE PhraseText(ps[1]) \o <<" ", "o", "r", " ">> \o JoinPhrases(Tail(ps))

\* texts that hold no phrase of the three forms
OtherMessages ==
    {<<>>,
     ERR_RATE_PLAIN,
     <<"T", "o", "o", " ", "m", "a", "n", "y", " ", "r", "e", "q", "u", "e", "s", "t", "s", ",", " ", "t", "r", "y", " ", "a", "g", "a", "i", "n", " ", "l", "a", "t", "e", "r">>,
     <<"T", "r", "y", " ", "a", "g", "a", "i", "n", " ", "i", "n", " ", "3", "0", "s">>,
     <<"t", "r", "y", " ", "a", "g", "a", "i", "n", " ", "i", "n", " ", "5", " ", "m", "i", "n", "u", "t", "e", "s">>,
     <<"t", "r", "y", " ", "a", "g", "a", "i", "n", " ", "i", "n", " ", ".", "5", "s">>,
     <<"t", "r", "y", " ", "a", "g", "a", "i", "n", " ", "i", "n", " ", "3", "0", " ", "s">>}

PhraseLists == UNION {[1..n -> Phrases] : n \in 1..MaxPhrases}

\* the call  self._parse_rate_limit_wait(wait_msg)
call_parse_rate_limit_wait ==
    /\ called = "none"
    /\ wait_ms' = parse_rate_limit_wait(wait_msg)
    /\ called' = "_parse_rate_limit_wait"
    /\ UNCHANGED <<wait_msg, wait_parts, planvars, splitvars, progvars, proofvars>>
    /\ UNCHANGED <<dlvars, trvars>>

InitParseWait ==
    /\ DownloadNew
    /\ num_chunks = 1
    /\ groq_api_key = FALSE
    /\ TranscriberNew
    /\ called = "none"
    /\ \/ /\ wait_parts \in PhraseLists
          /\ \E prefix \in MessagePrefixes : wait_msg = prefix \o JoinPhrases(wait_parts) \o <<".">>
       \/ /\ wait_parts = <<>>
          /\ wait_msg \in OtherMessages
    /\ wait_ms = -1
    /\ NoPlan
    /\ NoSplit
    /\ NoProgressCall
    /\ NoProofread

NextParseWait == call_parse_rate_limit_wait

SpecParseWait == InitParseWait /\ [][NextParseWait]_vars

\* the phrases of one form, in the order of the message
OfKind(ps, kind) == SelectSeq(ps, LAMBDA p : p.kind = kind)

Stale == progress_record.exists /\ ~all_exist(progress_record.chunk_paths)

C10_ResumeFromRecorded ==
    (t_op = "resume" /\ data.exists)
        => LET k == data.completed_chunks
           IN  /\ \A j \in 1..Len(api_calls) : api_calls[j] >= k
               /\ api_calls # <<>> => api_calls[1] = k
               /\ (t_pc = "chunk" \/ t_result.kind = "ok")
                     => /\ Len(data.texts) = k
                        /\ Len(all_text) >= k
                        /\ SubSeq(all_text, 1, k) = data.texts
               /\ t_result.kind = "ok"
                     => /\ t_result.text = JoinParagraphs(all_text)
                        /\ Len(all_text) = t_result.chunks

\* a run resumed at chunk 1 posted its first request for chunk 1 and
\* completed with the recorded text first
C10_Witness ==
    /\ t_op = "resume"
    /\ data.exists
    /\ data.completed_chunks = 1
    /\ data.texts = <<TEXT_A>>
    /\ api_calls # <<>>
    /\ api_calls[1] = 1
    /\ t_result.kind = "ok"
    /\ t_result.chunks = 2
    /\ t_result.text = TEXT_A \o <<"\n", "\n">> \o TEXT_B


\* one attempt of the chunk loop
Attempt == \E response \in GroqResponses : transcribe_chunk(response)

\* C11: for every chunk at most MAX_RETRIES requests are posted and at most
\* MAX_RETRIES - 1 sleeps made; each sleep lasts the wait parsed from the
\* rate-limit error plus the buffer of 10 seconds; the attempt that posts the
\* last allowed request either succeeds or ends the call with the chunk
\* failed, so the retry loop terminates.
C11_BoundedRetries ==
    /\ [](/\ chunk_calls <= MAX_RETRIES
          /\ t_retry <= MAX_RETRIES - 1
          /\ t_pc = "chunk" => (chunk_calls = t_retry /\ chunk_calls < MAX_RETRIES))
    /\ [][t_retry' = t_retry + 1
            => /\ IsRateLimit(last_error')
               /\ last_sleep' = parse_rate_limit_wait(last_error') + 1000 * RATE_LIMIT_BUFFER_SECONDS]_vars
    /\ [][(t_pc = "chunk" /\ chunk_calls = MAX_RETRIES - 1 /\ last_error' # <<>> /\ Attempt)
            => /\ t_pc' = "idle"
               /\ t_result'.kind = "chunk_failed"
               /\ t_result'.chunk = t_i + 1]_vars

\* the fifth request for a chunk was still rate-limited (after four sleeps of
\* 4m12.5s + 10s) and the chunk failed
C11_Witness ==
    /\ t_result.kind = "chunk_failed"
    /\ chunk_calls = MAX_RETRIES
    /\ t_retry = MAX_RETRIES - 1
    /\ last_error = GROQ_ERROR_PREFIX \o ERR_RATE_MINUTES
    /\ last_sleep = 262500

\* C12: a rate-limit error received on an attempt that is not the last
\* allowed one, whatever wait is parsed from it (zero included), is followed
\* by a sleep and another request for the same chunk, never by a failure.
C12_RateLimitRetried ==
    [][(t_pc = "chunk" /\ chunk_calls' = chunk_calls + 1 /\ chunk_calls' < MAX_RETRIES
          /\ IsRateLimit(last_error') /\ Attempt)
         => /\ t_pc' = "chunk"
            /\ t_i' = t_i
            /\ t_retry' = t_retry + 1
            /\ UNCHANGED t_result]_vars

C18_JoinInOrder ==
    /\ t_pc = "chunk" => (Len(all_text) = t_i /\ all_text = SubSeq(transcripts, 1, t_i))
    /\ t_result.kind = "ok"
          => /\ Len(transcripts) = t_result.chunks
             /\ t_result.chunks = num_chunks
             /\ all_text = transcripts
             /\ t_result.text = JoinParagraphs(transcripts)

\* a run that failed on its second chunk was resumed and completed
C18_Witness ==
    /\ t_op = "resume"
    /\ data.completed_chunks = 1
    /\ t_result.kind = "ok"
    /\ transcripts = <<TEXT_B, TEXT_A>>
    /\ t_result.text = TEXT_B \o <<"\n", "\n">> \o TEXT_A


(***************************************************************************)
(* _extract_audio on its own: the file used as it is, or the duration      *)
(* probed and the ffmpeg runs planned, every run succeeding.                *)
(***************************************************************************)
\* _extract_audio, 444
max_duration_for_single == 100 * 60

\* the longest duration tried is (10 + MaxExtraWindows) windows and a rest
MaxExtraWindows == 9

\* milliseconds past a whole number of windows
DurationRests == {0, 1, 500, 300000, 599999}

Durations ==
    {1000 * CHUNK_DURATION_SECONDS * a + b : a \in 9..(10 + MaxExtraWindows), b \in DurationRests}

\* the size up to which a file is sent as it is (426, 432): 25 MB in bytes
direct_size_limit == 25 * 1024 * 1024

\* sizes of the media file, in bytes
FileSizesOnDisk == {1048576, direct_size_limit, direct_size_limit + 1, 104857600}

\* _extract_audio, 421-433: an audio file of at most 25 MB is returned as it
\* is (424-427), and so is any other file of at most 25 MB (429-433)
use_file_directly ==
    /\ called = "none"
    /\ IF suffix_is_audio /\ st_size <= direct_size_limit
       THEN called' = "file_path"
       ELSE /\ st_size <= direct_size_limit
            /\ called' = "file_path"
    /\ UNCHANGED <<waitvars, planvars, splitvars, progvars, proofvars>>
    /\ UNCHANGED <<dlvars, trvars>>

\* _extract_audio, 437-440: _get_duration returns None (or 0.0)
duration_unknown ==
    /\ called = "none"
    /\ st_size > direct_size_limit
    /\ duration_ms = 0
    /\ duration_probed' = TRUE
    /\ called' = "None"
    /\ UNCHANGED <<waitvars, suffix_is_audio, st_size, duration_ms, chunk_windows, singlevars, splitvars, progvars, proofvars>>
    /\ UNCHANGED <<dlvars, trvars>>

\* a plausible slip: the chunk of the rest is not counted
chunk_count_without_rest(d) == d \div (1000 * CHUNK_DURATION_SECONDS)

\* _extract_chunked_audio, 509: int(duration_seconds / CHUNK_DURATION_SECONDS) + 1
chunk_count(d) == (d \div (1000 * CHUNK_DURATION_SECONDS)) + 1

\* _extract_audio, 446-450: the duration allows one audio file
extract_single_audio ==
    /\ called = "none"
    /\ st_size > direct_size_limit
    /\ duration_probed' = TRUE
    /\ duration_ms > 0
    /\ duration_ms <= 1000 * max_duration_for_single
    /\ called' = "_extract_single_audio"
    /\ chunk_windows' = <<>>
    /\ UNCHANGED <<waitvars, suffix_is_audio, st_size, duration_ms, singlevars, splitvars, progvars, proofvars>>
    /\ UNCHANGED <<dlvars, trvars>>

\* _extract_audio, 451-455, and _extract_chunked_audio, 509-553: chunk i is
\* cut with  -ss i * CHUNK_DURATION_SECONDS  -t CHUNK_DURATION_SECONDS
extract_chunked_audio ==
    /\ called = "none"
    /\ st_size > direct_size_limit
    /\ duration_probed' = TRUE
    /\ duration_ms > 1000 * max_duration_for_single
    /\ called' = "_extract_chunked_audio"
    /\ chunk_windows' = [i \in 1..chunk_count(duration_ms) |->
                            [ss |-> (i - 1) * 1000 * CHUNK_DURATION_SECONDS,
                             t  |-> 1000 * CHUNK_DURATION_SECONDS]]
    /\ UNCHANGED <<waitvars, suffix_is_audio, st_size, duration_ms, singlevars, splitvars, progvars, proofvars>>
    /\ UNCHANGED <<dlvars, trvars>>

InitChunkPlan ==
    /\ DownloadNew
    /\ num_chunks = 1
    /\ groq_api_key = FALSE
    /\ TranscriberNew
    /\ called = "none"
    /\ NoWait
    /\ suffix_is_audio \in BOOLEAN
    /\ st_size \in FileSizesOnDisk
    /\ duration_probed = FALSE
    /\ duration_ms \in Durations \cup {0}
    /\ chunk_windows = <<>>
    /\ NoSinglePass
    /\ NoSplit
    /\ NoProgressCall
    /\ NoProofread

NextChunkPlan ==
    \/ use_file_directly
    \/ duration_unknown
    \/ extract_single_audio
    \/ extract_chunked_audio

SpecChunkPlan == InitChunkPlan /\ [][NextChunkPlan]_vars

\* C16: when chunked extraction is chosen the plan has floor(duration /
\* window) + 1 chunks (the last one starts at or before the end of the
\* source, the one after it would start past the end), chunk i starts at
\* i * window and lasts one window, each window starts where the one before
\* it ends, the first starts at 0 and the last ends at or after the end of
\* the source.
C16_WindowsCoverSource ==
    called = "_extract_chunked_audio" =>
        LET n == Len(chunk_windows)
            w == 1000 * CHUNK_DURATION_SECONDS
        IN  /\ n >= 1
            /\ (n - 1) * w <= duration_ms
            /\ duration_ms < n * w
            /\ \A i \in 1..n : chunk_windows[i].ss = (i - 1) * w /\ chunk_windows[i].t = w
            /\ chunk_windows[1].ss = 0
            /\ \A i \in 1..(n - 1) :
                  chunk_windows[i + 1].ss = chunk_windows[i].ss + chunk_windows[i].t
            /\ chunk_windows[n].ss + chunk_windows[n].t >= duration_ms

\* a source of 7500 seconds is cut into 13 chunks
C16_Witness ==
    /\ called = "_extract_chunked_audio"
    /\ duration_ms = 7500000
    /\ Len(chunk_windows) = 13
    /\ chunk_windows[13] = [ss |-> 7200000, t |-> 600000]

\* C26: the file is used as it is, without probing, exactly when its
\* extension is an audio extension and its size is at most 25 MB; for every
\* other file the duration is probed before single-pass or chunked
\* extraction is chosen.
C26_DirectOnlySmallAudio ==
    called # "none" =>
        LET small_audio == suffix_is_audio /\ st_size <= direct_size_limit
        IN  /\ called = "file_path" <=> small_audio
            /\ duration_probed <=> ~small_audio

\* C17: when chunked extraction is chosen the number of chunks is
\* ceil(duration / window): the least n with n * window >= duration.
C17_CountIsCeiling ==
    called = "_extract_chunked_audio" =>
        LET n == Len(chunk_windows)
            w == 1000 * CHUNK_DURATION_SECONDS
        IN  /\ n * w >= duration_ms
            /\ (n - 1) * w < duration_ms


(***************************************************************************)
(* Proofreader._split_into_chunks on its own.  A text is written as its    *)
(* runs: a sequence of records [c, n], n >= 1 copies of the character c,   *)
(* neighbouring runs of different characters, so that texts longer than    *)
(* the budget of 25000 characters can be enumerated.                       *)
(***************************************************************************)
\* characters of one chunk sent to the text-completion API (33)
MAX_CHUNK_CHARS == 25000

\* characters two neighbouring slices of a forced split share (34)
CHUNK_OVERLAP_CHARS == 500

\* runs of one input text
MaxRuns == 4

\* a letter, a blank, a line break
RunChars == {"x", " ", "\n"}

RunLengths(c) == IF c = "\n" THEN {1, 2} ELSE {1, 20, 24990, 25000, 25001}

Runs == UNION {[c : {ch}, n : RunLengths(ch)] : ch \in RunChars}

\* the texts of at most max runs
Texts(max) ==
    {t \in UNION {[1..k -> Runs] : k \in 0..max} :
        \A i \in 1..(Len(t) - 1) : t[i].c # t[i + 1].c}

\* len(t)
RECURSIVE TextLen(_)
TextLen(t) == IF t = <<>> THEN 0 ELSE t[1].n + TextLen(Tail(t))

\* a + b
TextCat(a, b) ==
    IF a = <<>> THEN b
    ELSE IF b = <<>> THEN a
    ELSE IF a[Len(a)].c = b[1].c
    THEN SubSeq(a, 1, Len(a) - 1) \o <<[c |-> b[1].c, n |-> a[Len(a)].n + b[1].n]>> \o Tail(b)
    ELSE a \o b

\* t[k:]
RECURSIVE TextDrop(_, _)
TextDrop(t, k) ==
    IF k = 0 \/ t = <<>> THEN t
    ELSE IF t[1].n <= k THEN TextDrop(Tail(t), k - t[1].n)
    ELSE <<[c |-> t[1].c, n |-> t[1].n - k]>> \o Tail(t)

\* t[:k]
RECURSIVE TextTake(_, _)
TextTake(t, k) ==
    IF k = 0 \/ t = <<>> THEN <<>>
    ELSE IF t[1].n <= k THEN <<t[1]>> \o TextTake(Tail(t), k - t[1].n)
    ELSE <<[c |-> t[1].c, n |-> k]>>

\* t[i:j] for 0 <= i <= j
TextSlice(t, i, j) == TextTake(TextDrop(t, i), j - i)

\* t.strip()
TextStrip(t) ==
    LET keep == {i \in 1..Len(t) : t[i].c \notin SpaceChars}
    IN  IF keep = {} THEN <<>>
        ELSE LET lo == CHOOSE i \in keep : \A j \in keep : i <= j
                 hi == CHOOSE i \in keep : \A j \in keep : j <= i
             IN  SubSeq(t, lo, hi)

\* t.splitlines(), cur being the line read so far: a line break ends the
\* line, the text after the last line break is a line unless it is empty
RECURSIVE LinesFrom(_, _)
LinesFrom(t, cur) ==
    IF t = <<>> THEN (IF cur = <<>> THEN <<>> ELSE <<cur>>)
    ELSE IF t[1].c = "\n"
    THEN <<cur>> \o [k \in 1..(t[1].n - 1) |-> <<>>] \o LinesFrom(Tail(t), <<>>)
    ELSE LinesFrom(Tail(t), Append(cur, t[1]))

splitlines(t) == LinesFrom(t, <<>>)

\* _split_into_chunks, 144-151: the loop over the lines
RECURSIVE line_loop(_, _, _)
line_loop(lines, chunks, current_chunk) ==
    IF lines = <<>> THEN [chunks |-> chunks, current_chunk |-> current_chunk]
    ELSE LET line == Head(lines)
         IN  IF /\ TextLen(current_chunk) + TextLen(line) + 1 > MAX_CHUNK_CHARS
                /\ current_chunk # <<>>
             THEN line_loop(Tail(lines), Append(chunks, TextStrip(current_chunk)), line)
             ELSE line_loop(Tail(lines), chunks,
                            TextCat(TextCat(current_chunk,
                                            IF current_chunk # <<>> THEN <<[c |-> "\n", n |-> 1]>> ELSE <<>>),
                                    line))

\* _split_into_chunks, 159-162: slices of MAX_CHUNK_CHARS characters that
\* start every MAX_CHUNK_CHARS - CHUNK_OVERLAP_CHARS characters
force_split(t) ==
    LET step  == MAX_CHUNK_CHARS - CHUNK_OVERLAP_CHARS
        count == (TextLen(t) + step - 1) \div step
    IN  [k \in 1..count |-> TextSlice(t, (k - 1) * step, (k - 1) * step + MAX_CHUNK_CHARS)]

\* Proofreader._split_into_chunks (127-167)
split_into_chunks(t) ==
    IF TextLen(t) <= MAX_CHUNK_CHARS THEN <<t>>
    ELSE LET loop   == line_loop(splitlines(t), <<>>, <<>>)
             chunks == IF TextStrip(loop.current_chunk) # <<>>
                       THEN Append(loop.chunks, TextStrip(loop.current_chunk))
                       ELSE loop.chunks
         IN  IF Len(chunks) = 1 THEN force_split(t) ELSE chunks

\* the call  self._split_into_chunks(split_text)
call_split_into_chunks ==
    /\ called = "none"
    /\ split_chunks' = split_into_chunks(split_text)
    /\ called' = "_split_into_chunks"
    /\ UNCHANGED <<waitvars, planvars, split_text, progvars, proofvars>>
    /\ UNCHANGED <<dlvars, trvars>>

InitSplit ==
    /\ DownloadNew
    /\ num_chunks = 1
    /\ groq_api_key = FALSE
    /\ TranscriberNew
    /\ called = "none"
    /\ NoWait
    /\ NoPlan
    /\ split_text \in Texts(MaxRuns)
    /\ split_chunks = <<>>
    /\ NoProgressCall
    /\ NoProofread

NextSplit == call_split_into_chunks

SpecSplit == InitSplit /\ [][NextSplit]_vars

\* offsets of t at a line boundary: the start, the end, and the offsets just
\* before and just after a line break
RECURSIVE LineBoundariesFrom(_, _)
LineBoundariesFrom(t, offset) ==
    IF t = <<>> THEN {offset}
    ELSE (IF t[1].c = "\n" THEN offset..(offset + t[1].n) ELSE {})
         \cup LineBoundariesFrom(Tail(t), offset + t[1].n)

LineBoundaries(t) == {0} \cup LineBoundariesFrom(t, 0)

\* the chunk is the text between two line boundaries, as it stands or stripped
WholeLines(chunk, t) ==
    \E s \in LineBoundaries(t), e \in LineBoundaries(t) :
        /\ s <= e
        /\ chunk \in {TextSlice(t, s, e), TextStrip(TextSlice(t, s, e))}

\* C19: when every line of the input is at most MAX_CHUNK_CHARS long, every
\* chunk returned by _split_into_chunks starts and ends at a line boundary
\* of the input.
C19_NoMidLineSplit ==
    (/\ called = "_split_into_chunks"
     /\ \A i \in 1..Len(splitlines(split_text)) :
           TextLen(splitlines(split_text)[i]) <= MAX_CHUNK_CHARS)
    => \A k \in 1..Len(split_chunks) : WholeLines(split_chunks[k], split_text)

\* C20: every chunk returned by _split_into_chunks is at most
\* MAX_CHUNK_CHARS long.
C20_ChunkWithinBudget ==
    called = "_split_into_chunks"
    => \A k \in 1..Len(split_chunks) : TextLen(split_chunks[k]) <= MAX_CHUNK_CHARS


Interrupted == t_pc = "chunk" /\ t_op' = "none"

\* C30: the requests of a chunked transcription go out in increasing chunk
\* order; the request for chunk i + 1 goes out only when chunk i succeeded
\* and a record with completed_chunks = i + 1 holding its text is on disk;
\* so an interruption at any point of the loop leaves a record holding every
\* chunk completed so far, all but the chunk in flight.
C30_SequentialPersisted ==
    /\ [](\A j \in 1..(Len(api_calls) - 1) : api_calls[j] < api_calls[j + 1])
    /\ []((t_pc = "chunk" /\ t_i > start_chunk)
            => /\ progress_record.readable
               /\ progress_record.completed_chunks = t_i
               /\ progress_record.texts = all_text
               /\ all_text[t_i] = transcripts[t_i])
    /\ [][(Interrupted /\ t_i > 0)
            => /\ progress_record'.readable
               /\ progress_record'.completed_chunks >= t_i
               /\ Len(progress_record'.texts) >= t_i]_vars

\* the worker takes a line from the stream (one iteration of the loop of 103)
LineRead(w) == pc[w] = "read" /\ nread'[w] = nread[w] + 1

C29_ProcessReaped ==
    \A w \in Workers : pc[w] = "done" => process[w] \in {"none", "reaped"}

(***************************************************************************)
(* DownloadWorker._parse_progress_line on its own: lines built from a      *)
(* leading tag, blanks, a percentage and the rest of the line.             *)
(***************************************************************************)
\* blanks between the tag and the percentage
MaxBlanks == 2

\* the tag a line starts with; marked: it is the marker [download]
LineTags ==
    {[text |-> DOWNLOAD_MARKER, marked |-> TRUE],
     [text |-> <<"[", "D", "o", "w", "n", "l", "o", "a", "d", "]">>, marked |-> FALSE],
     [text |-> <<"[", "i", "n", "f", "o", "]", " ", "d", "o", "w", "n", "l", "o", "a", "d">>, marked |-> FALSE],
     [text |-> <<"d", "o", "w", "n", "l", "o", "a", "d">>, marked |-> FALSE],
     [text |-> <<>>, marked |-> FALSE]}

\* the digits before the point, with their value
WholeTexts ==
    {[text |-> <<"0">>, n |-> 0], [text |-> <<"7">>, n |-> 7], [text |-> <<"4", "5">>, n |-> 45],
     [text |-> <<"9", "9">>, n |-> 99], [text |-> <<"1", "0", "0">>, n |-> 100]}

\* what follows the digits before the point
FractionTexts ==
    {<<>>, <<".">>, <<".", "0">>, <<".", "7">>, <<".", "9">>, <<".", "2", "5">>,
     <<".", "9", "9">>, <<".">> \o NINES}

\* what follows the percent sign
LineRests == {<<>>, <<" ", "o", "f", " ", "~", "4", "8", ".", "0", "0", "M", "i", "B", " ", "a", "t", " ", " ", "2", ".", "3", "0", "M", "i", "B", "/", "s", " ", "E", "T", "A", " ", "0", "0", ":", "1", "2">>, <<" ", "o", "f", " ", "4", "8", ".", "0", "0", "M", "i", "B", " ", "i", "n", " ", "0", "0", ":", "0", "5">>}

ProgressParts ==
    [tag : LineTags, blanks : 1..MaxBlanks, whole : WholeTexts,
     fraction : FractionTexts, rest : LineRests]

ProgressLineOf(parts) ==
    parts.tag.text \o [k \in 1..parts.blanks |-> " "] \o parts.whole.text
    \o parts.fraction \o <<"%">> \o parts.rest

\* the call  self._parse_progress_line(progress_line)
call_parse_progress_line ==
    /\ called = "none"
    /\ progress_event' = parse_progress_line(progress_line)
    /\ called' = "_parse_progress_line"
    /\ UNCHANGED <<waitvars, planvars, splitvars, progress_line, progress_parts, proofvars>>
    /\ UNCHANGED <<dlvars, trvars>>

InitParseProgress ==
    /\ DownloadNew
    /\ num_chunks = 1
    /\ groq_api_key = FALSE
    /\ TranscriberNew
    /\ called = "none"
    /\ NoWait
    /\ NoPlan
    /\ NoSplit
    /\ progress_parts \in ProgressParts
    /\ progress_line = ProgressLineOf(progress_parts)
    /\ progress_event = NoProgress
    /\ NoProofread

NextParseProgress == call_parse_progress_line

SpecParseProgress == InitParseProgress /\ [][NextParseProgress]_vars

\* C22: for a line that starts with the marker and carries a percentage from
\* 0 to 100, with or without a fraction, _parse_progress_line returns an
\* event whose percentage is the integer part of the value as written.
C22_PercentageTruncated ==
    (called = "_parse_progress_line" /\ progress_parts.tag.marked)
    => /\ progress_event.matched
       /\ progress_event.percentage = progress_parts.whole.n

\* C23: for a line that does not hold the marker [download],
\* _parse_progress_line returns no event, whatever percentage, speed or ETA
\* the line carries.
C23_UnmarkedLineNoEvent ==
    (called = "_parse_progress_line" /\ ~progress_parts.tag.marked)
    => progress_event = NoProgress

\* "[Download]  45.7% of ~48.00MiB at  2.30MiB/s ETA 00:12" gave no event
C23_Witness ==
    /\ called = "_parse_progress_line"
    /\ progress_parts.tag.text = <<"[", "D", "o", "w", "n", "l", "o", "a", "d", "]">>
    /\ progress_parts.whole.n = 45
    /\ progress_parts.rest = <<" ", "o", "f", " ", "~", "4", "8", ".", "0", "0", "M", "i", "B", " ", "a", "t", " ", " ", "2", ".", "3", "0", "M", "i", "B", "/", "s", " ", "E", "T", "A", " ", "0", "0", ":", "1", "2">>
    /\ Contains(progress_line, <<"E", "T", "A">>)
    /\ progress_event = NoProgress


(***************************************************************************)
(* Proofreader.proofread  (src/src/proofreader.py): the text is split and  *)
(* the chunks are posted to the completion API one after another.          *)
(***************************************************************************)
\* paragraphs of the longest input text
MaxParagraphs == 3

\* a text of p paragraphs of 24990 letters, two line breaks between them:
\* no two paragraphs fit one chunk
ParagraphsText(p) ==
    [k \in 1..(2 * p - 1) |->
        IF k % 2 = 1 THEN [c |-> "x", n |-> 24990] ELSE [c |-> "\n", n |-> 2]]

ProofTexts ==
    {<<>>, <<[c |-> " ", n |-> 20]>>} \cup {ParagraphsText(p) : p \in 1..MaxParagraphs}

SUMMARY_SEPARATOR == <<"-", "-", "-", "S", "U", "M", "M", "A", "R", "Y", "-", "-", "-">>

\* the least index at which sub occurs in s, 0 when it does not
FindSub(s, sub) ==
    IF Contains(s, sub)
    THEN CHOOSE i \in 1..(Len(s) + 1) :
            OccursAt(s, sub, i) /\ \A j \in 1..(i - 1) : ~OccursAt(s, sub, j)
    ELSE 0

NO_DETAILED_SUMMARY == <<"P", "r", "o", "o", "f", "r", "e", "a", "d", "i", "n", "g", " ", "c", "o", "m", "p", "l", "e", "t", "e", " ", "(", "n", "o", " ", "d", "e", "t", "a", "i", "l", "e", "d", " ", "s", "u", "m", "m", "a", "r", "y", " ", "a", "v", "a", "i", "l", "a", "b", "l", "e", ")">>

\* Proofreader._parse_response (324-343)
parse_response(content) ==
    LET at == FindSub(content, SUMMARY_SEPARATOR)
    IN  IF at > 0
        THEN [edited_text |-> Strip(SubSeq(content, 1, at - 1)),
              summary |-> Strip(SubSeq(content, at + Len(SUMMARY_SEPARATOR), Len(content)))]
        ELSE [edited_text |-> Strip(content), summary |-> NO_DETAILED_SUMMARY]

\* what the completion API answers to one request; status 0: the request
\* timed out
LLMReplies ==
    {[status |-> 200, content |-> <<"F", "i", "x", "e", "d", " ", "a", ".", "\n", "-", "-", "-", "S", "U", "M", "M", "A", "R", "Y", "-", "-", "-", "\n", "2", " ", "t", "y", "p", "o", "s">>],
     [status |-> 200, content |-> <<" ", "F", "i", "x", "e", "d", " ", "b", ".", " ">>],
     [status |-> 200, content |-> <<"F", "i", "x", "e", "d", " ", "c", ".", "-", "-", "-", "S", "U", "M", "M", "A", "R", "Y", "-", "-", "-">>],
     [status |-> 200, content |-> <<>>],
     [status |-> 401, content |-> <<>>],
     [status |-> 429, content |-> <<>>],
     [status |-> 500, content |-> <<>>],
     [status |-> 0, content |-> <<>>]}

\* Proofreader._proofread_single (169-245) on the answer to its request
proofread_single(reply) ==
    IF reply.status = 200
    THEN IF reply.content = <<>>
         THEN [failed |-> TRUE, error |-> "Empty response from LLM", edited_text |-> <<>>, summary |-> <<>>]
         ELSE LET parsed == parse_response(reply.content)
              IN  [failed |-> FALSE, error |-> "", edited_text |-> parsed.edited_text, summary |-> parsed.summary]
    ELSE [failed |-> TRUE,
          error |-> CASE reply.status = 401 -> "Invalid OpenRouter API key."
                      [] reply.status = 429 -> "Rate limit exceeded. Please wait and try again."
                      [] reply.status = 0 -> "Request timed out."
                      [] OTHER -> "OpenRouter API error: ",
          edited_text |-> <<>>, summary |-> <<>>]

\* a dict with the key "error"; chunk 0: the message names no chunk
ProofError(chunk, total, cause) ==
    [NoProofResult EXCEPT !.kind = "error", !.chunk = chunk, !.total = total, !.cause = cause]

\* proofread, 266-277: the key and the text are tested, the text is split
proofread_begin ==
    /\ p_pc = "idle"
    /\ IF ~p_api_key
       THEN /\ p_result' = ProofError(0, 0, "No OpenRouter API key configured. Please add your API key in Settings.")
            /\ p_pc' = "returned"
            /\ UNCHANGED <<p_chunks, p_i>>
       ELSE IF TextStrip(p_text) = <<>>
       THEN /\ p_result' = ProofError(0, 0, "No text provided for proofreading.")
            /\ p_pc' = "returned"
            /\ UNCHANGED <<p_chunks, p_i>>
       ELSE /\ p_chunks' = split_into_chunks(p_text)
            /\ p_pc' = IF Len(p_chunks') = 1 THEN "single" ELSE "loop"
            /\ p_i' = 1
            /\ UNCHANGED p_result
    /\ UNCHANGED <<p_api_key, p_text, all_edited, all_summaries, p_sent>>
    /\ UNCHANGED <<called, waitvars, planvars, splitvars, progvars>>
    /\ UNCHANGED <<dlvars, trvars>>

\* proofread, 276-280: the one request of a text that is one chunk
proofread_whole(reply) ==
    /\ p_pc = "single"
    /\ p_sent' = Append(p_sent, p_text)
    /\ LET result == proofread_single(reply)
       IN  p_result' =
              IF result.failed THEN ProofError(0, 0, result.error)
              ELSE [NoProofResult EXCEPT !.kind = "ok", !.edited_text = result.edited_text,
                                         !.summary.single = result.summary]
    /\ p_pc' = "returned"
    /\ UNCHANGED <<p_api_key, p_text, p_chunks, p_i, all_edited, all_summaries>>
    /\ UNCHANGED <<called, waitvars, planvars, splitvars, progvars>>
    /\ UNCHANGED <<dlvars, trvars>>

\* a plausible slip: a failed chunk is skipped and the loop goes on
proofread_chunk_skips_failure(reply) ==
    /\ p_pc = "loop"
    /\ p_i <= Len(p_chunks)
    /\ p_sent' = Append(p_sent, p_chunks[p_i])
    /\ LET result == proofread_single(reply)
       IN  /\ all_edited' = IF result.failed THEN all_edited ELSE Append(all_edited, result.edited_text)
           /\ all_summaries' =
                 IF ~result.failed /\ result.summary # <<>>
                 THEN Append(all_summaries, [chunk |-> p_i, summary |-> result.summary])
                 ELSE all_summaries
    /\ p_i' = p_i + 1
    /\ UNCHANGED <<p_pc, p_result>>
    /\ UNCHANGED <<p_api_key, p_text, p_chunks>>
    /\ UNCHANGED <<called, waitvars, planvars, splitvars, progvars>>
    /\ UNCHANGED <<dlvars, trvars>>

\* proofread, 289-306: one iteration of the loop over the chunks
proofread_chunk(reply) ==
    /\ p_pc = "loop"
    /\ p_i <= Len(p_chunks)
    /\ p_sent' = Append(p_sent, p_chunks[p_i])
    /\ LET result == proofread_single(reply)
       IN  IF result.failed
           THEN /\ p_result' = ProofError(p_i, Len(p_chunks), result.error)
                /\ p_pc' = "returned"
                /\ UNCHANGED <<p_i, all_edited, all_summaries>>
           ELSE /\ all_edited' = Append(all_edited, result.edited_text)
                /\ all_summaries' =
                      IF result.summary # <<>>
                      THEN Append(all_summaries, [chunk |-> p_i, summary |-> result.summary])
                      ELSE all_summaries
                /\ p_i' = p_i + 1
                /\ UNCHANGED <<p_pc, p_result>>
    /\ UNCHANGED <<p_api_key, p_text, p_chunks>>
    /\ UNCHANGED <<called, waitvars, planvars, splitvars, progvars>>
    /\ UNCHANGED <<dlvars, trvars>>

\* proofread, 308-322: the loop is over, the combined result
proofread_combine ==
    /\ p_pc = "loop"
    /\ p_i > Len(p_chunks)
    /\ p_result' =
          [NoProofResult EXCEPT
              !.kind = "ok",
              !.edited_text = JoinParagraphs(all_edited),
              !.summary = [processed |-> Len(p_chunks),
                           shown |-> SubSeq(all_summaries, 1, IF Len(all_summaries) > 3 THEN 3 ELSE Len(all_summaries)),
                           more |-> IF Len(all_summaries) > 3 THEN Len(all_summaries) - 3 ELSE 0,
                           single |-> <<>>],
              !.chunks = Len(p_chunks)]
    /\ p_pc' = "returned"
    /\ UNCHANGED <<p_api_key, p_text, p_chunks, p_i, all_edited, all_summaries, p_sent>>
    /\ UNCHANGED <<called, waitvars, planvars, splitvars, progvars>>
    /\ UNCHANGED <<dlvars, trvars>>

InitProofread ==
    /\ DownloadNew
    /\ num_chunks = 1
    /\ groq_api_key = FALSE
    /\ TranscriberNew
    /\ called = "none"
    /\ NoWait
    /\ NoPlan
    /\ NoSplit
    /\ NoProgressCall
    /\ p_api_key \in BOOLEAN
    /\ p_text \in ProofTexts
    /\ p_pc = "idle"
    /\ p_chunks = <<>>
    /\ p_i = 0
    /\ all_edited = <<>>
    /\ all_summaries = <<>>
    /\ p_result = NoProofResult
    /\ p_sent = <<>>

NextProofread ==
    \/ proofread_begin
    \/ \E reply \in LLMReplies : proofread_whole(reply)
    \/ \E reply \in LLMReplies : proofread_chunk(reply)
    \/ proofread_combine

SpecProofread == InitProofread /\ [][NextProofread]_vars

\* C21: in a proofread of several chunks the chunks are posted one after
\* another in order, chunk i + 1 only when chunk i came back edited; the
\* first chunk that fails ends the call: nothing is posted afterwards, and the
\* value returned is an error naming that chunk and the number of chunks,
\* without edited text.
C21_SequentialAbortOnFailure ==
    /\ [](Len(p_chunks) > 1
            => /\ Len(p_sent) <= Len(p_chunks)
               /\ \A j \in 1..Len(p_sent) : p_sent[j] = p_chunks[j]
               /\ p_pc = "loop" => (Len(all_edited) = Len(p_sent) /\ p_i = Len(p_sent) + 1)
               /\ p_result.kind = "error"
                     => /\ p_pc = "returned"
                        /\ p_result.chunk = Len(p_sent)
                        /\ p_result.total = Len(p_chunks)
                        /\ p_result.cause # ""
                        /\ p_result.edited_text = <<>>
                        /\ Len(all_edited) = Len(p_sent) - 1)
    /\ [][\A reply \in LLMReplies :
            (Len(p_chunks) > 1 /\ proofread_chunk(reply) /\ proofread_single(reply).failed)
               => (p_pc' = "returned" /\ p_result'.kind = "error" /\ p_result'.chunk = p_i)]_vars
    /\ [][p_pc = "returned" => UNCHANGED p_sent]_vars

\* the second of three chunks failed on a rate limit after the first was edited
C21_Witness ==
    /\ Len(p_chunks) = 3
    /\ Len(p_sent) = 2
    /\ Len(all_edited) = 1
    /\ p_pc = "returned"
    /\ p_result = ProofError(2, 3, "Rate limit exceeded. Please wait and try again.")


(***************************************************************************)
(* Further properties of the download job controller.                      *)
(***************************************************************************)
\* C34: a job that succeeds emits a progress event with percentage 100
\* right before download_finished, and no progress event after it.
C34_FullProgressBeforeFinished ==
    \A w \in Workers :
        /\ (pc[w] = "done" /\ ~cancelled[w] /\ process[w] = "reaped" /\ returncode[w] = 0)
              => Count(emitted[w], "download_finished") = 1
        /\ \A i \in 1..Len(emitted[w]) :
              IsFinished(emitted[w][i])
                 => /\ i > 1
                    /\ emitted[w][i - 1] = progress_updated(100, <<>>, <<>>)
                    /\ \A j \in (i + 1)..Len(emitted[w]) : ~IsProgress(emitted[w][j])

\* a job succeeded after a progress line had been reported
C34_Witness ==
    \E w \in Workers :
        /\ pc[w] = "done"
        /\ returncode[w] = 0
        /\ Count(emitted[w], "progress_updated") = 2
        /\ Count(emitted[w], "download_finished") = 1
        /\ emitted[w][Len(emitted[w])] = log_message(LOG_COMPLETE)


\* C40: last_percentage starts at 0. While the worker has emitted no
\* progress event, a progress line whose percentage is 0 emits nothing, and
\* a progress line with any other percentage emits its progress event.
C40_DedupStartsAtZero ==
    [][\A w \in Workers :
         (LineRead(w) /\ ~cancelled[w] /\ Count(emitted[w], "progress_updated") = 0)
            => \A line \in OutputLines :
                 LET progress == ParsedLine[line]
                 IN  progress.matched
                        => \/ IF progress.percentage = 0
                              THEN emitted'[w] = emitted[w]
                              ELSE emitted'[w] = Append(emitted[w],
                                       progress_updated(progress.percentage, progress.speed, progress.eta))
                           \/ ~run_readline(w, line)]_vars

\* a job that is not cancelled has read two lines, neither logged, and
\* emitted one progress event, of 45%
C40_Witness ==
    \E w \in Workers :
        /\ pc[w] = "read"
        /\ nread[w] = 2
        /\ ~cancelled[w]
        /\ last_percentage[w] = 45
        /\ Count(emitted[w], "progress_updated") = 1
        /\ logged[w] = <<>>


\* C36: while the job is not cancelled, every non-empty output line read
\* from the subprocess is passed to the log, whether or not it is a progress
\* line or an error line.
C36_EveryLineLogged ==
    [][\A w \in Workers :
         (LineRead(w) /\ ~cancelled[w])
            => \A line \in OutputLines :
                 (Strip(line) # <<>> /\ run_readline(w, line))
                    => /\ Len(logged'[w]) > Len(logged[w])
                       /\ logged'[w][Len(logged'[w])].line = Strip(line)]_vars


\* C32: the manager forwards a terminal signal to its listeners before its
\* own _cleanup runs, so for as long as a listener is handling
\* download_finished or error_occurred the manager reports is_downloading
\* and a start_download issued from the handler is rejected.
C32_DownloadingWhileHandled ==
    dialogs > 0 => is_downloading


\* C35: the message of a failed download is decided by the last collected
\* error line alone, whatever lines were collected before it, and the
\* categories are tested on it in the order sign-in/bot, unavailable, age:
\* a line of several categories gets the first of them.
C35_MessageFromLastLine ==
    [][\A w \in Workers :
         (pc[w] = "report" /\ pc'[w] = "done" /\ returncode[w] # 0 /\ error_lines[w] # <<>>)
            => LET last == error_lines[w][Len(error_lines[w])]
                   sign_in == \/ Contains(last, <<"S", "i", "g", "n", " ", "i", "n">>)
                              \/ Contains(Lower(last), <<"b", "o", "t">>)
                   unavailable == Contains(Lower(last), <<"u", "n", "a", "v", "a", "i", "l", "a", "b", "l", "e">>)
                   age == Contains(Lower(last), <<"a", "g", "e">>)
                   message == emitted'[w][Len(emitted'[w])].msg
               IN  /\ emitted'[w] = Append(emitted[w], error_occurred(message))
                   /\ sign_in => message = FixedMessage(MSG_SIGN_IN)
                   /\ (~sign_in /\ unavailable) => message = FixedMessage(MSG_UNAVAILABLE)
                   /\ (~sign_in /\ ~unavailable /\ age) => message = FixedMessage(MSG_AGE)
                   /\ (~sign_in /\ ~unavailable /\ ~age) => message = RawMessage(last)]_vars

\* a job failed after a sign-in error line and then a line that is both of
\* the unavailable and of the age category: the message is the unavailable one
C35_Witness ==
    \E w \in Workers :
        /\ pc[w] = "done"
        /\ returncode[w] = 1
        /\ error_lines[w] = <<Strip(LINE_ERR_SIGNIN), Strip(LINE_ERR_UNAVAILABLE)>>
        /\ Contains(Lower(LINE_ERR_UNAVAILABLE), <<"a", "g", "e">>)
        /\ emitted[w][Len(emitted[w])] = error_occurred(FixedMessage(MSG_UNAVAILABLE))


(***************************************************************************)
(* Further properties of the proofreader's splitter.                       *)
(***************************************************************************)
\* the lines of t that are not blank, in order
NonBlankLines(t) == SelectSeq(splitlines(t), LAMBDA l : TextStrip(l) # <<>>)

\* the lines that are not blank of each chunk in turn
RECURSIVE ChunkLines(_)
ChunkLines(chunks) ==
    IF chunks = <<>> THEN <<>>
    ELSE NonBlankLines(Head(chunks)) \o ChunkLines(Tail(chunks))

\* the text was too long for one request and the chunks of the line loop
\* were kept
SplitAtLines ==
    /\ called = "_split_into_chunks"
    /\ TextLen(split_text) > MAX_CHUNK_CHARS
    /\ LET loop == line_loop(splitlines(split_text), <<>>, <<>>)
       IN  Len(loop.chunks) + (IF TextStrip(loop.current_chunk) # <<>> THEN 1 ELSE 0) # 1

\* C39: when _split_into_chunks splits at line boundaries, the non-blank
\* lines of the chunks, taken chunk after chunk, are the non-blank lines of
\* the input: each once, unchanged and in the original order.
C39_LinesPreserved ==
    SplitAtLines => ChunkLines(split_chunks) = NonBlankLines(split_text)


(***************************************************************************)
(* Further properties of the transcription controller.                     *)
(***************************************************************************)
\* C31: every progress record the transcriber has written, in a fresh or a
\* resumed run, after a chunk that succeeded or one that failed, has
\* completed_chunks = len(texts) and
\* completed_chunks <= total_chunks = len(chunk_paths).
C31_RecordConsistent ==
    progress_record.readable
       => /\ progress_record.completed_chunks = Len(progress_record.texts)
          /\ progress_record.completed_chunks <= progress_record.total_chunks
          /\ progress_record.total_chunks = Len(progress_record.chunk_paths)

\* a resumed run that started at chunk 1 has saved the record of chunk 2
C31_Witness ==
    /\ t_op = "resume"
    /\ t_pc = "chunk"
    /\ start_chunk = 1
    /\ data.completed_chunks = 1
    /\ progress_record.readable
    /\ progress_record.completed_chunks = 2
    /\ Len(progress_record.texts) = 2


(***************************************************************************)
(* Transcriber.transcribe on a file that needs no chunks: the file itself  *)
(* or one extracted audio file is transcribed, by the speech API or by the *)
(* local engine.                                                           *)
(***************************************************************************)
\* what the ffmpeg run of _extract_single_audio (464-495) leaves: "ok" an
\* audio file of at most 25 MB; "large" a larger one; "failed" no file
\* (ffmpeg missing, or an error before it wrote); "partial" a file cut
\* short (a non-zero exit code or the timeout of 1200 s, after it wrote)
FfmpegOutcomes == {"ok", "large", "failed", "partial"}

\* transcribe, 145-151: the finally clause of the try of 124
finally_unlink ==
    temp_audio' = IF audio_path # "file_path" /\ temp_audio # "none" THEN "none" ELSE temp_audio

\* transcribe, 104-122, with _extract_audio (420-450) and
\* _extract_single_audio (457-496)
transcribe_single_extract(outcome) ==
    /\ single_pc = "idle"
    /\ duration_ms <= 1000 * max_duration_for_single
    /\ IF ~source_present
       THEN /\ single_result' = "file_not_found"
            /\ single_pc' = "returned"
            /\ UNCHANGED <<temp_audio, audio_path, duration_probed>>
       ELSE IF st_size <= direct_size_limit
       THEN /\ audio_path' = "file_path"
            /\ single_pc' = "try"
            /\ UNCHANGED <<temp_audio, single_result, duration_probed>>
       ELSE /\ duration_probed' = TRUE
            /\ IF duration_ms > 0 /\ outcome = "ok"
               THEN /\ temp_audio' = "complete"
                    /\ audio_path' = "temp_audio"
                    /\ single_pc' = "try"
                    /\ UNCHANGED single_result
               ELSE /\ temp_audio' = IF duration_ms > 0 /\ outcome = "partial" THEN "partial"
                                     ELSE IF duration_ms > 0 /\ outcome = "large" THEN "none"
                                     ELSE temp_audio
                    /\ audio_path' = "None"
                    /\ single_result' = "file_too_large"
                    /\ single_pc' = "returned"
    /\ UNCHANGED <<called, waitvars, suffix_is_audio, st_size, duration_ms, chunk_windows, source_present, local_whisper, splitvars, progvars, proofvars>>
    /\ UNCHANGED <<dlvars, trvars>>

\* transcribe, 125-133: the speech API is tried first when a key is set
transcribe_single_groq(response) ==
    /\ single_pc = "try"
    /\ IF groq_api_key /\ response.status = 200
       THEN /\ single_result' = "groq_ok"
            /\ single_pc' = "returned"
            /\ finally_unlink
       ELSE /\ single_pc' = "local"
            /\ UNCHANGED <<single_result, temp_audio>>
    /\ UNCHANGED <<called, waitvars, suffix_is_audio, st_size, duration_probed, duration_ms, chunk_windows, source_present, local_whisper, audio_path, splitvars, progvars, proofvars>>
    /\ UNCHANGED <<dlvars, trvars>>

\* transcribe, 135-144: the local engine when it is installed (ok: the value
\* _transcribe_local returns is a transcript), or one of the two errors
transcribe_single_local(ok) ==
    /\ single_pc = "local"
    /\ single_result' =
          IF local_whisper THEN (IF ok THEN "local_ok" ELSE "local_error")
          ELSE IF ~groq_api_key THEN "no_api_key"
          ELSE "transcription_failed"
    /\ single_pc' = "returned"
    /\ finally_unlink
    /\ UNCHANGED <<called, waitvars, suffix_is_audio, st_size, duration_probed, duration_ms, chunk_windows, source_present, local_whisper, audio_path, splitvars, progvars, proofvars>>
    /\ UNCHANGED <<dlvars, trvars>>

InitSinglePass ==
    /\ DownloadNew
    /\ num_chunks = 1
    /\ groq_api_key \in BOOLEAN
    /\ TranscriberNew
    /\ called = "none"
    /\ NoWait
    /\ suffix_is_audio \in BOOLEAN
    /\ st_size \in FileSizesOnDisk
    /\ duration_probed = FALSE
    /\ duration_ms \in {d \in Durations \cup {0} : d <= 1000 * max_duration_for_single}
    /\ chunk_windows = <<>>
    /\ source_present \in BOOLEAN
    /\ local_whisper \in BOOLEAN
    /\ temp_audio = "none"
    /\ audio_path = "unset"
    /\ single_pc = "idle"
    /\ single_result = "none"
    /\ NoSplit
    /\ NoProgressCall
    /\ NoProofread

NextSinglePass ==
    \/ \E outcome \in FfmpegOutcomes : transcribe_single_extract(outcome)
    \/ \E response \in GroqResponses : transcribe_single_groq(response)
    \/ \E ok \in BOOLEAN : transcribe_single_local(ok)

SpecSinglePass == InitSinglePass /\ [][NextSinglePass]_vars

\* C38: transcribe never deletes or changes the source file, and when it
\* returns from a transcription without chunks, with a transcript of the
\* speech API or of the local engine or with any error, no temporary audio
\* file is left.
C38_TempAudioDeleted ==
    /\ [][source_present' = source_present]_vars
    /\ [](single_pc = "returned" => temp_audio = "none")

(***************************************************************************)
(* The chunked transcription with the timestamps option: runs that fail at *)
(* a chunk and are resumed, in the same session or after the application   *)
(* was closed between two calls and started again.  The extraction         *)
(* succeeds and the key is set.                                            *)
(***************************************************************************)
InitTimestamps ==
    /\ DownloadNew
    /\ num_chunks \in 1..MaxChunks
    /\ groq_api_key = TRUE
    /\ TranscriberNew
    /\ NothingCalled

NextTimestamps ==
    \/ \E include \in BOOLEAN : transcribe(num_chunks, FALSE, include)
    \/ \E response \in GroqResponses : transcribe_chunk(response)
    \/ transcribe_chunks_finish
    \/ resume_transcription
    \/ (t_pc = "idle" /\ restart(TRUE))

SpecTimestamps == InitTimestamps /\ [][NextTimestamps]_vars

\* the segments the speech API returned with a transcript
SegmentsOf(text) == (CHOOSE r \in GroqResponses : r.status = 200 /\ r.text = text).segments

\* the seconds a timestamp shows: "MM:SS" or "HH:MM:SS" read back
RECURSIVE StampValue(_, _, _)
StampValue(cs, high, low) ==
    IF cs = <<>> THEN 60 * high + low
    ELSE IF Head(cs) = ":" THEN StampValue(Tail(cs), 60 * high + low, 0)
    ELSE StampValue(Tail(cs), high, 10 * low + (CHOOSE d \in 0..9 : Digits[d + 1] = Head(cs)))

\* the timestamps of a timestamped text, in seconds, in the order of the text
RECURSIVE Stamps(_)
Stamps(t) ==
    IF t = <<>> THEN <<>>
    ELSE IF Head(t) = "["
    THEN LET close == CHOOSE j \in 2..Len(t) : t[j] = "]" /\ \A k \in 2..(j - 1) : t[k] # "]"
         IN  <<StampValue(SubSeq(t, 2, close - 1), 0, 0)>> \o Stamps(SubSeq(t, close + 1, Len(t)))
    ELSE Stamps(Tail(t))

\* the whole seconds at which the segments that have text start, each
\* increased by offset seconds
RECURSIVE SegmentSeconds(_, _)
SegmentSeconds(segments, offset) ==
    IF segments = <<>> THEN <<>>
    ELSE (IF Strip(Head(segments).text) # <<>> THEN <<(Head(segments).start \div 1000) + offset>> ELSE <<>>)
         \o SegmentSeconds(Tail(segments), offset)

\* the segment times of the first n chunks, chunk i (from 0) moved by i
\* windows of CHUNK_DURATION_SECONDS
RECURSIVE OffsetSeconds(_)
OffsetSeconds(n) ==
    IF n = 0 THEN <<>>
    ELSE OffsetSeconds(n - 1) \o SegmentSeconds(SegmentsOf(transcripts[n]), (n - 1) * CHUNK_DURATION_SECONDS)

\* C37: in the combined timestamped text of a chunked transcription, resumed
\* or not, the timestamp of every segment of chunk i is the segment's start
\* increased by exactly i times 600 s, so no timestamp of chunk i is smaller
\* than the chunk's start offset.
C37_TimestampsOffsetByChunk ==
    (t_pc = "idle" /\ t_result.kind = "ok" /\ t_result.has_timestamped)
       => /\ Len(transcripts) = t_result.chunks
          /\ Stamps(t_result.timestamped_text) = OffsetSeconds(t_result.chunks)

\* a resumed run has returned the timestamped text of two chunks or more,
\* the later ones transcribed after the resume
C37_Witness ==
    /\ t_op = "resume"
    /\ t_pc = "idle"
    /\ t_result.kind = "ok"
    /\ t_result.has_timestamped
    /\ start_chunk >= 1
    /\ start_chunk < t_result.chunks
    /\ \E k \in 1..Len(Stamps(t_result.timestamped_text)) :
          Stamps(t_result.timestamped_text)[k] >= CHUNK_DURATION_SECONDS

\* the result of a run over n chunks in which no request fails, the
\* responses being the ones recorded in transcripts
Uninterrupted(n, include) ==
    LET first    == CHOOSE r \in GroqResponses : r.status = 200 /\ r.text = transcripts[1]
        stamped  == [k \in 1..n |-> format_timestamps(SegmentsOf(transcripts[k]), 1000 * (k - 1) * CHUNK_DURATION_SECONDS)]
        response == Result("ok", JoinParagraphs(SubSeq(transcripts, 1, n)),
                           IF first.language = "" THEN "unknown" ELSE first.language, n, 0, <<>>)
    IN  IF include
        THEN [response EXCEPT !.has_timestamped = TRUE, !.timestamped_text = JoinLines(stamped)]
        ELSE response

\* C33: a transcription completed by resume_transcription, after any number
\* of failures and resumes at any chunks, returns the combined text, the
\* combined timestamped text and the language an uninterrupted run over the
\* same chunks returns from the same responses.
C33_ResumeEquivalent ==
    (t_op = "resume" /\ t_pc = "idle" /\ t_result.kind = "ok")
       => /\ Len(transcripts) = Len(data.chunk_paths)
          /\ t_result = Uninterrupted(Len(data.chunk_paths), timestamps_asked)

\* a run with timestamps that failed at its last chunk was resumed there,
\* the record holding the timestamped texts of the chunks before it, and
\* completed with one request
C33_Witness ==
    /\ t_op = "resume"
    /\ t_pc = "idle"
    /\ t_result.kind = "ok"
    /\ t_result.has_timestamped
    /\ t_result.chunks = MaxChunks
    /\ start_chunk = MaxChunks - 1
    /\ data.timestamped_texts # <<>>
    /\ Len(api_calls) = 1

=============================================================================
